---- MODULE Spec2Model ----
(***************************************************************************)
(* A model of cdata (src/main.py): a form editor whose store is a          *)
(* spreadsheet document.  The model covers the table extractor, the header *)
(* normaliser, the record index and its lookup, the two-strategy upsert    *)
(* (Excel automation, then openpyxl) with its verification read, and the   *)
(* MainWindow handlers that drive them.                                    *)
(*                                                                         *)
(* Text.  A Python str is a sequence of glyphs; a glyph is a one-element   *)
(* TLA+ string.  " " is the whitespace glyph, "0".."9" are the ASCII       *)
(* digits, "fw0".."fw9" are the full-width digits, "." is the decimal      *)
(* point, and a word of the program that is never taken apart (a column    *)
(* name such as 品目番号) is one glyph.                                    *)
(*                                                                         *)
(* Values.  A cell value is None, a str, an int or a float with one        *)
(* decimal digit: [t, s, n, d].                                            *)
(***************************************************************************)
EXTENDS Integers, Sequences, FiniteSets, TLC

VARIABLES
    book,               \* the document on disk: sheet name -> grid of cell values
    preloaded_data,     \* MainWindow.preloaded_data: sheet name -> table
    record_index,       \* MainWindow.record_index: sheet -> column -> key -> Record
    widgets,            \* MainWindow.widgets: field key -> current text
    save_button,        \* the save button: [text, enabled]
    cylinder_units,     \* MainWindow.cylinder_units: the sub-record slots
    last_fetched_item,  \* MainWindow._last_fetched_item
    fetch_workers,      \* FetchWorker threads: started, or finished and not yet delivered
    last_find,          \* the last find_record_by_column call: [column, value, record]
    last_save,          \* what the last on_save did and reported
    n_saves,            \* the number of upsert_record_to_xlsm calls made so far
    call_stack,         \* the handlers of the interactive thread that wait in an event
                        \* pump (QApplication.processEvents), innermost first
    fetch_log,          \* the lookups so far: [started, delivered, last]
    pc                  \* "loading" before the startup load has been applied, "ready"
                        \* after, "aborted" once the process has been terminated

vars == <<book, preloaded_data, record_index, widgets, save_button,
          cylinder_units, last_fetched_item, fetch_workers, last_find,
          last_save, n_saves, call_stack, fetch_log, pc>>

----------------------------------------------------------------------------
(* Bounds of the model. *)

\* Largest number of data rows (below the header) of a sheet the startup load reads.
MaxLoadRows == 2
\* Largest number of data rows of the sheet the upsert calls of SpecUpsert start from.
MaxUpsertRows == 2
\* Largest number of upsert_record_to_xlsm calls in one behaviour.
MaxSaves == 2

----------------------------------------------------------------------------
(* Text *)

WS == " "
Digit == {"0", "1", "2", "3", "4", "5", "6", "7", "8", "9"}
FullWidthDigit == {"fw0", "fw1", "fw2", "fw3", "fw4", "fw5", "fw6", "fw7", "fw8", "fw9"}

\* 品目番号, the key column
ITEM_NO == <<"ItemNo">>
\* 品目番号+刷順 and 品目番号+刷順列, the composite key column (legacy and current name)
ITEM_NO_ORDER == <<"ItemNo+Order">>
ITEM_NO_ORDER_COL == <<"ItemNo+OrderCol">>
\* 色数, the count field
COLOR_COUNT == <<"ColorCount">>
\* 品名, a free-text field of the form and column of the sheet
ITEM_NAME == <<"ItemName">>
\* 受注データ and シリンダーデータ, the two sheets
ORDER_SHEET == "OrderData"
CYLINDER_SHEET == "CylinderData"
\* 新規登録 and 上書き保存, the two save modes (the save button's two texts)
NEW_MODE == "NewRegistration"
OVERWRITE_MODE == "OverwriteSave"

SEARCH_COLUMNS == <<ITEM_NO>>

DigitValue(g) ==
    CASE g \in {"0", "fw0"} -> 0 [] g \in {"1", "fw1"} -> 1 [] g \in {"2", "fw2"} -> 2
      [] g \in {"3", "fw3"} -> 3 [] g \in {"4", "fw4"} -> 4 [] g \in {"5", "fw5"} -> 5
      [] g \in {"6", "fw6"} -> 6 [] g \in {"7", "fw7"} -> 7 [] g \in {"8", "fw8"} -> 8
      [] g \in {"9", "fw9"} -> 9

DigitGlyph(n) ==
    CASE n = 0 -> "0" [] n = 1 -> "1" [] n = 2 -> "2" [] n = 3 -> "3" [] n = 4 -> "4"
      [] n = 5 -> "5" [] n = 6 -> "6" [] n = 7 -> "7" [] n = 8 -> "8" [] n = 9 -> "9"

\* str(n) for an int n >= 0
RECURSIVE IntToStr(_)
IntToStr(n) == IF n < 10 THEN <<DigitGlyph(n)>>
               ELSE Append(IntToStr(n \div 10), DigitGlyph(n % 10))

\* str.strip(): the text without its leading and trailing whitespace
RECURSIVE lstrip(_)
lstrip(s) == IF s # <<>> /\ Head(s) = WS THEN lstrip(Tail(s)) ELSE s
RECURSIVE rstrip(_)
rstrip(s) == IF s # <<>> /\ s[Len(s)] = WS THEN rstrip(SubSeq(s, 1, Len(s) - 1)) ELSE s
strip(s) == rstrip(lstrip(s))

----------------------------------------------------------------------------
(* Cell values *)

None == [t |-> "none", s |-> <<>>, n |-> 0, d |-> 0]
StrCell(s) == [t |-> "str", s |-> s, n |-> 0, d |-> 0]
IntCell(n) == [t |-> "int", s |-> <<>>, n |-> n, d |-> 0]
FloatCell(n, d) == [t |-> "float", s |-> <<>>, n |-> n, d |-> d]

\* str(value)
PyStr(v) ==
    CASE v.t = "str" -> v.s
      [] v.t = "int" -> IntToStr(v.n)
      [] v.t = "float" -> IntToStr(v.n) \o <<".", DigitGlyph(v.d)>>
      [] v.t = "none" -> <<"None">>

\* value in (None, ""): the emptiness test of the extractor and of the fallback's row scan
IsBlankCell(v) == v.t = "none" \/ (v.t = "str" /\ v.s = <<>>)

\* Python truthiness of a cell value (value or "")
Truthy(v) ==
    CASE v.t = "none" -> FALSE
      [] v.t = "str" -> v.s # <<>>
      [] v.t = "int" -> v.n # 0
      [] v.t = "float" -> ~(v.n = 0 /\ v.d = 0)

\* (mutant) a normalization that removes one whitespace character from each end
normalize_header_name_once(value) ==
    LET text == IF value.t = "none" THEN <<>> ELSE PyStr(value)
        left == IF text # <<>> /\ Head(text) = WS THEN Tail(text) ELSE text
    IN IF left # <<>> /\ left[Len(left)] = WS THEN SubSeq(left, 1, Len(left) - 1) ELSE left

normalize_header_name(value) == IF value.t = "none" THEN <<>> ELSE strip(PyStr(value))

_normalize_cell_text(value) ==
    IF value.t = "none" THEN <<>>
    ELSE IF value.t = "float" /\ value.d = 0 THEN IntToStr(value.n)
    ELSE PyStr(value)

----------------------------------------------------------------------------
(* Python dicts are functions; an optional value is [some, val]. *)

EmptyDict == <<>>
DictSet(dict, k, v) == [x \in DOMAIN dict \cup {k} |-> IF x = k THEN v ELSE dict[x]]
Some(v) == [some |-> TRUE, val |-> v]
Nothing == [some |-> FALSE, val |-> <<>>]
\* dict.get(k), and dict.get(k, default)
DictGet(dict, k) == IF k \in DOMAIN dict THEN Some(dict[k]) ELSE Nothing
DictGetOr(dict, k, default) == IF k \in DOMAIN dict THEN dict[k] ELSE default

SetMin(S) == CHOOSE x \in S : \A y \in S : x <= y
SetMax(S) == CHOOSE x \in S : \A y \in S : x >= y

----------------------------------------------------------------------------
(* A worksheet as openpyxl presents it: a grid of max_row rows and         *)
(* max_column columns, row 1 the header; a cell outside the grid reads     *)
(* None.                                                                   *)

max_row(ws) == Len(ws)
max_column(ws) == Len(ws[1])
CellValue(ws, r, c) ==
    IF r \in 1..Len(ws) /\ c \in 1..Len(ws[r]) THEN ws[r][c] ELSE None

\* The header map every reader of a header row builds: the trimmed name of each of
\* the first ncols header cells -> its column; None and blank names are skipped
\* and the first column of a name wins.
HeaderMapOfRow(ws, ncols) ==
    LET named == {c \in 1..ncols :
                    /\ CellValue(ws, 1, c) # None
                    /\ normalize_header_name(CellValue(ws, 1, c)) # <<>>}
        names == {normalize_header_name(CellValue(ws, 1, c)) : c \in named}
    IN [h \in names |->
          SetMin({c \in named : normalize_header_name(CellValue(ws, 1, c)) = h})]

_build_header_map_from_sheet(ws) == HeaderMapOfRow(ws, max_column(ws))

\* The bottom-most row (above row 1) of column col whose cell is not in (None, ""),
\* or 0 when there is none: the loop  for r in range(ws.max_row, 1, -1).
LastFilledRowIn(ws, col) ==
    LET filled == {r \in 2..max_row(ws) : ~IsBlankCell(CellValue(ws, r, col))}
    IN IF filled = {} THEN 0 ELSE SetMax(filled)

\* (mutant) an extractor that scans the item number column only
_extract_range_from_sheet_one_anchor(ws) ==
    LET blankFrom(c) == \A k \in c..max_column(ws) : IsBlankCell(CellValue(ws, 1, k))
        max_col == IF blankFrom(1) THEN 0
                   ELSE SetMax({c \in 1..max_column(ws) : ~blankFrom(c)})
        header_map == HeaderMapOfRow(ws, max_col)
        anchors == {ITEM_NO} \cap DOMAIN header_map
        last_row == SetMax({1} \cup {LastFilledRowIn(ws, header_map[k]) : k \in anchors})
    IN [r \in 1..last_row |-> [c \in 1..max_col |-> CellValue(ws, r, c)]]

_extract_range_from_sheet(ws) ==
    LET blankFrom(c) == \A k \in c..max_column(ws) : IsBlankCell(CellValue(ws, 1, k))
        max_col == IF blankFrom(1) THEN 0
                   ELSE SetMax({c \in 1..max_column(ws) : ~blankFrom(c)})
        header_map == HeaderMapOfRow(ws, max_col)
        anchors == {ITEM_NO, ITEM_NO_ORDER} \cap DOMAIN header_map
        last_row == SetMax({1} \cup {LastFilledRowIn(ws, header_map[k]) : k \in anchors})
    IN [r \in 1..last_row |-> [c \in 1..max_col |-> CellValue(ws, r, c)]]

\* extract_initial_data: a sheet the workbook does not hold is left out of the result
extract_initial_data(wb) ==
    [sheet \in {ORDER_SHEET, CYLINDER_SHEET} \cap DOMAIN wb |->
        _extract_range_from_sheet(wb[sheet])]

----------------------------------------------------------------------------
(* The record index *)

\* list.index(x): the first position of x
ListIndex(list, x) == SetMin({i \in 1..Len(list) : list[i] = x})

\* The dict comprehension of build_record_index: every non-blank header name -> the
\* row's cell under it as str, "" for a cell that is absent or None.  A name that
\* occurs in several columns is assigned once per column, so its last column stays.
RowRecord(headers, row) ==
    LET names == {headers[i] : i \in 1..Len(headers)} \ {<<>>}
    IN [h \in names |->
          LET i == SetMax({j \in 1..Len(headers) : headers[j] = h})
          IN IF i <= Len(row) /\ row[i] # None THEN PyStr(row[i]) ELSE <<>>]

\* (mutant) a key that is already in col_dict keeps its first row
RECURSIVE ColDictFirstWins(_, _, _, _)
ColDictFirstWins(data, headers, idx, r) ==
    IF r < 2 THEN EmptyDict
    ELSE LET before == ColDictFirstWins(data, headers, idx, r - 1)
             row == data[r]
         IN IF idx <= Len(row) /\ row[idx] # None /\ PyStr(row[idx]) \notin DOMAIN before
            THEN DictSet(before, PyStr(row[idx]), RowRecord(headers, row))
            ELSE before

\* col_dict after the data rows 2..r have been visited in order
RECURSIVE ColDictUpTo(_, _, _, _)
ColDictUpTo(data, headers, idx, r) ==
    IF r < 2 THEN EmptyDict
    ELSE LET before == ColDictUpTo(data, headers, idx, r - 1)
             row == data[r]
         IN IF idx <= Len(row) /\ row[idx] # None
            THEN DictSet(before, PyStr(row[idx]), RowRecord(headers, row))
            ELSE before

\* (mutant) an index whose columns keep the first row of a key
build_record_index_first_wins(data, columns) ==
    IF data = <<>> THEN EmptyDict
    ELSE LET headers == [i \in 1..Len(data[1]) |-> normalize_header_name(data[1][i])]
             present == {columns[k] : k \in 1..Len(columns)}
                          \cap {headers[i] : i \in 1..Len(headers)}
         IN [column \in present |->
                ColDictFirstWins(data, headers, ListIndex(headers, column), Len(data))]

build_record_index(data, columns) ==
    IF data = <<>> THEN EmptyDict
    ELSE LET headers == [i \in 1..Len(data[1]) |-> normalize_header_name(data[1][i])]
             present == {columns[k] : k \in 1..Len(columns)}
                          \cap {headers[i] : i \in 1..Len(headers)}
         IN [column \in present |->
                ColDictUpTo(data, headers, ListIndex(headers, column), Len(data))]

\* (mutant) index_map.setdefault(column, {}) in place of index_map.get(column, {})
find_record_by_column_setdefault(index_map, column, value) ==
    LET after == IF column \in DOMAIN index_map THEN index_map
                 ELSE DictSet(index_map, column, EmptyDict)
    IN [index_map |-> after, record |-> DictGet(after[column], value),
        alias |-> IF value \in DOMAIN after[column] THEN Some(<<column, value>>)
                  ELSE Nothing]

\* find_record_by_column(index_map, column, value): the arguments as the call leaves
\* them, and the value returned.  column_dict.get(value) hands back the dict object
\* that the index stores, not a copy of it: alias names the place of the index whose
\* object the returned record is (index_map[column][value]), Nothing for None.
find_record_by_column(index_map, column, value) ==
    LET column_dict == DictGetOr(index_map, column, EmptyDict)
    IN [index_map |-> index_map, record |-> DictGet(column_dict, value),
        alias |-> IF value \in DOMAIN column_dict THEN Some(<<column, value>>)
                  ELSE Nothing]

----------------------------------------------------------------------------
(* The persistence engine.  The workbook wb maps sheet names to grids.  A  *)
(* form dict (data) is the sequence of its <<key, text>> items in          *)
(* insertion order; a normalized dict is a function.  What the two write   *)
(* paths meet outside the program is the environment env of a call:        *)
(*   excel    "unavailable": no automation (not Windows, no win32com,      *)
(*            Excel or the workbook cannot be opened);                     *)
(*            "fails": an unexpected exception while writing or saving;    *)
(*            "ok": the attempt runs to its end                            *)
(*   coerce   Excel stores an all-digit text as a number (a General cell)  *)
(*   readable load_workbook succeeds in _verify_saved_row                  *)
(*   file     "ok", or the fallback's load_workbook or wb.save is refused  *)
(*            ("load_denied", "save_denied": PermissionError)              *)
(* An Optional[int] row number is 0 for None.                              *)

NoRow == 0

normalize_form_keys(data) ==
    LET key(i) == normalize_header_name(StrCell(data[i][1]))
        kept == {i \in 1..Len(data) : key(i) # <<>>}
    IN [k \in {key(i) : i \in kept} |-> data[SetMin({i \in kept : key(i) = k})][2]]

\* The items of normalize_form_keys(data) in the order the loop inserted them
RECURSIVE normalized_items(_, _)
normalized_items(data, n) ==
    IF n = 0 THEN <<>>
    ELSE LET before == normalized_items(data, n - 1)
             normalized_key == normalize_header_name(StrCell(data[n][1]))
         IN IF normalized_key = <<>> THEN before
            ELSE IF \E j \in 1..Len(before) : before[j][1] = normalized_key THEN before
            ELSE Append(before, <<normalized_key, data[n][2]>>)

IsDigits(text) == text # <<>> /\ \A i \in 1..Len(text) : text[i] \in Digit

RECURSIVE DigitsToInt(_)
DigitsToInt(text) ==
    IF text = <<>> THEN 0
    ELSE 10 * DigitsToInt(SubSeq(text, 1, Len(text) - 1)) + DigitValue(text[Len(text)])

\* What a cell holds after  worksheet.Cells(r, c).Value = text  and workbook.Save()
ExcelStore(text, coerce) ==
    IF text = <<>> THEN None
    ELSE IF coerce /\ IsDigits(text) THEN IntCell(DigitsToInt(text))
    ELSE StrCell(text)

\* What a cell holds after  ws.cell(r, c).value = text  and wb.save(path)
OpenpyxlStore(text) == StrCell(text)

\* The cell a write path stores for text
StoreCell(store, text) ==
    IF store = "openpyxl" THEN OpenpyxlStore(text)
    ELSE ExcelStore(text, store = "excel_coerced")

\* The loop that writes the request: every column of header_map whose name is a key
\* of normalized_data gets the request's text in row target_row; the grid grows to
\* target_row when a cell is written below it.
WriteFields(ws, header_map, target_row, normalized_data, store) ==
    LET names == DOMAIN header_map \cap DOMAIN normalized_data
        nameOf(c) == CHOOSE h \in names : header_map[h] = c
        columns == {header_map[h] : h \in names}
        rows == IF columns = {} \/ target_row <= Len(ws) THEN Len(ws) ELSE target_row
    IN [r \in 1..rows |->
          [c \in 1..max_column(ws) |->
              IF r = target_row /\ c \in columns
              THEN StoreCell(store, normalized_data[nameOf(c)])
              ELSE CellValue(ws, r, c)]]

\* worksheet.Cells(row, col).Value: the automation interface hands every number
\* back as a float (the header cells of the sheets modelled here are text)
ExcelValue(v) == IF v.t = "int" THEN FloatCell(v.n, 0) ELSE v

\* str(cell_value or "").strip(): the key text the privileged scan compares
ExcelKeyText(v) ==
    IF Truthy(ExcelValue(v)) THEN strip(PyStr(ExcelValue(v))) ELSE <<>>

\* The row _try_upsert_with_excel writes: in overwrite mode the first row of
\* 2..last_filled_row whose key text is the key, else no row; in new mode the row
\* after last_filled_row.
ExcelTargetRow(ws, item_column, item_value, save_mode) ==
    LET last_filled_row == SetMax({1, LastFilledRowIn(ws, item_column)})
        matches == {r \in 2..last_filled_row :
                       ExcelKeyText(CellValue(ws, r, item_column)) = item_value}
    IN IF save_mode = OVERWRITE_MODE
       THEN (IF matches = {} THEN NoRow ELSE SetMin(matches))
       ELSE last_filled_row + 1

\* _try_upsert_with_excel from the header map on (a local variable is bound as the
\* one element of a set, so that its value is computed once)
ExcelWrite(wb, header_map, normalized_data, sheet_name, save_mode, env) ==
    IF ITEM_NO \notin DOMAIN header_map
    THEN [wb |-> wb, row |-> NoRow, raised |-> "ValueError: no key column"]
    ELSE CHOOSE result \in
           { IF target_row = NoRow
             THEN [wb |-> wb, row |-> NoRow, raised |-> "ValueError: row not found"]
             ELSE IF env.excel = "fails"
             THEN [wb |-> wb, row |-> NoRow, raised |-> ""]
             ELSE [wb |-> [wb EXCEPT ![sheet_name] =
                              WriteFields(wb[sheet_name], header_map, target_row,
                                          normalized_data,
                                          IF env.coerce THEN "excel_coerced" ELSE "excel")],
                   row |-> target_row, raised |-> ""]
             : target_row \in {ExcelTargetRow(wb[sheet_name], header_map[ITEM_NO],
                                              DictGetOr(normalized_data, ITEM_NO, <<>>),
                                              save_mode)} } : TRUE

_try_upsert_with_excel(wb, normalized_data, sheet_name, save_mode, env) ==
    IF env.excel = "unavailable" THEN [wb |-> wb, row |-> NoRow, raised |-> ""]
    ELSE IF sheet_name \notin DOMAIN wb
    THEN [wb |-> wb, row |-> NoRow, raised |-> "ValueError: no sheet"]
    ELSE CHOOSE result \in
           { ExcelWrite(wb, header_map, normalized_data, sheet_name, save_mode, env)
             : header_map \in {HeaderMapOfRow(wb[sheet_name], max_column(wb[sheet_name]))} }
           : TRUE

_verify_saved_row(wb, sheet_name, target_row, normalized_data, env) ==
    IF ~env.readable THEN FALSE
    ELSE IF sheet_name \notin DOMAIN wb THEN FALSE
    ELSE \E header_map \in {_build_header_map_from_sheet(wb[sheet_name])} :
            IF header_map = EmptyDict THEN FALSE
            ELSE IF target_row < 1 \/ target_row > max_row(wb[sheet_name]) THEN FALSE
            ELSE \A header_key \in DOMAIN normalized_data \cap DOMAIN header_map :
                    _normalize_cell_text(
                        CellValue(wb[sheet_name], target_row, header_map[header_key]))
                        = _normalize_cell_text(StrCell(normalized_data[header_key]))

\* (mutant) an overwrite that finds no row appends one
OpenpyxlTargetRow_appending(ws, item_column, item_value, save_mode, target_row_hint) ==
    LET matches == {r \in 2..max_row(ws) :
                       _normalize_cell_text(CellValue(ws, r, item_column)) = item_value}
    IN IF save_mode = OVERWRITE_MODE /\ matches # {}
       THEN SetMin(matches)
       ELSE SetMax({1, LastFilledRowIn(ws, item_column)}) + 1

\* (mutant) a new registration of a key that a row carries is merged into that row
OpenpyxlTargetRow_merging(ws, item_column, item_value, save_mode, target_row_hint) ==
    LET matches == {r \in 2..max_row(ws) :
                       _normalize_cell_text(CellValue(ws, r, item_column)) = item_value}
    IN IF matches # {} THEN SetMin(matches)
       ELSE IF save_mode = OVERWRITE_MODE THEN NoRow
       ELSE SetMax({1, LastFilledRowIn(ws, item_column)}) + 1

\* (mutant) an overwrite writes the row after the last populated one, as a new
\* registration does
OpenpyxlTargetRow_always_new(ws, item_column, item_value, save_mode, target_row_hint) ==
    LET matches == {r \in 2..max_row(ws) :
                       _normalize_cell_text(CellValue(ws, r, item_column)) = item_value}
    IN IF save_mode = OVERWRITE_MODE /\ matches = {} THEN NoRow
       ELSE SetMax({1, LastFilledRowIn(ws, item_column)}) + 1

\* (mutant) the hinted row is used in either mode only when its key cell is the key
OpenpyxlTargetRow_checking_hint(ws, item_column, item_value, save_mode, target_row_hint) ==
    LET matches == {r \in 2..max_row(ws) :
                       _normalize_cell_text(CellValue(ws, r, item_column)) = item_value}
    IN IF /\ target_row_hint # NoRow /\ target_row_hint >= 2
          /\ _normalize_cell_text(CellValue(ws, target_row_hint, item_column)) = item_value
       THEN target_row_hint
       ELSE IF save_mode = OVERWRITE_MODE
       THEN (IF matches = {} THEN NoRow ELSE SetMin(matches))
       ELSE SetMax({1, LastFilledRowIn(ws, item_column)}) + 1

\* The row _upsert_with_openpyxl writes: in overwrite mode the hinted row when its key
\* still matches, else the first row of the key column whose text is the key, else no
\* row; in new mode the hinted row when there is one, else the row after the last
\* populated key-column row.
OpenpyxlTargetRow(ws, item_column, item_value, save_mode, target_row_hint) ==
    LET hinted == target_row_hint # NoRow /\ target_row_hint >= 2
        matches == {r \in 2..max_row(ws) :
                       _normalize_cell_text(CellValue(ws, r, item_column)) = item_value}
    IN IF save_mode = OVERWRITE_MODE
       THEN IF hinted /\ _normalize_cell_text(
                             CellValue(ws, target_row_hint, item_column)) = item_value
            THEN target_row_hint
            ELSE IF matches = {} THEN NoRow ELSE SetMin(matches)
       ELSE IF hinted THEN target_row_hint
            ELSE SetMax({1, LastFilledRowIn(ws, item_column)}) + 1

\* _upsert_with_openpyxl from the header map on
OpenpyxlWrite(wb, header_map, normalized_data, sheet_name, save_mode, target_row_hint, env) ==
    IF ITEM_NO \notin DOMAIN header_map
    THEN [wb |-> wb, row |-> NoRow, raised |-> "ValueError: no key column"]
    ELSE CHOOSE result \in
           { IF target_row = NoRow
             THEN [wb |-> wb, row |-> NoRow, raised |-> "ValueError: row not found"]
             ELSE IF env.file = "save_denied"
             THEN [wb |-> wb, row |-> NoRow, raised |-> "PermissionError"]
             ELSE [wb |-> [wb EXCEPT ![sheet_name] =
                              WriteFields(wb[sheet_name], header_map, target_row,
                                          normalized_data, "openpyxl")],
                   row |-> target_row, raised |-> ""]
             : target_row \in {OpenpyxlTargetRow(wb[sheet_name], header_map[ITEM_NO],
                                                 DictGetOr(normalized_data, ITEM_NO, <<>>),
                                                 save_mode, target_row_hint)} } : TRUE

_upsert_with_openpyxl(wb, normalized_data, sheet_name, save_mode, target_row_hint, env) ==
    IF env.file = "load_denied"
    THEN [wb |-> wb, row |-> NoRow, raised |-> "PermissionError: close Excel"]
    ELSE IF sheet_name \notin DOMAIN wb
    THEN [wb |-> wb, row |-> NoRow, raised |-> "ValueError: no sheet"]
    ELSE CHOOSE result \in
           { OpenpyxlWrite(wb, header_map, normalized_data, sheet_name, save_mode,
                           target_row_hint, env)
             : header_map \in {_build_header_map_from_sheet(wb[sheet_name])} } : TRUE

\* What upsert_record_to_xlsm does once the privileged attempt has given com: the
\* workbook it leaves, the exception it raises ("" for a normal return), and the
\* course it took: what the attempt gave (excel: "none", "raised" or "row", and
\* excel_row), whether that row was verified, whether the fallback ran, and the row
\* of the last write.
AfterExcelAttempt(com, normalized_data, sheet_name, save_mode, env) ==
    IF com.raised # ""
    THEN [wb |-> com.wb, raised |-> com.raised, excel |-> "raised", excel_row |-> NoRow,
          verified |-> FALSE, fallback |-> FALSE, row |-> NoRow]
    ELSE IF com.row # NoRow
            /\ _verify_saved_row(com.wb, sheet_name, com.row, normalized_data, env)
    THEN [wb |-> com.wb, raised |-> "", excel |-> "row", excel_row |-> com.row,
          verified |-> TRUE, fallback |-> FALSE, row |-> com.row]
    ELSE CHOOSE result \in
           { [wb |-> fallback.wb, raised |-> fallback.raised,
              excel |-> IF com.row = NoRow THEN "none" ELSE "row", excel_row |-> com.row,
              verified |-> FALSE, fallback |-> TRUE, row |-> fallback.row]
             : fallback \in {_upsert_with_openpyxl(com.wb, normalized_data, sheet_name,
                                                   save_mode, com.row, env)} } : TRUE

\* (mutant) every exception of the privileged attempt is absorbed and the fallback runs
upsert_absorbing_value_errors(wb, data, sheet_name, save_mode, env) ==
    CHOOSE result \in
      { IF com.raised # ""
        THEN [AfterExcelAttempt([wb |-> wb, row |-> NoRow, raised |-> ""],
                                normalized_data, sheet_name, save_mode, env)
                EXCEPT !.excel = "raised"]
        ELSE AfterExcelAttempt(com, normalized_data, sheet_name, save_mode, env)
        : normalized_data \in {normalize_form_keys(data)},
          com \in {_try_upsert_with_excel(wb, normalize_form_keys(data), sheet_name,
                                          save_mode, env)} } : TRUE

\* (mutant) the fallback rewrites the row also after a verified privileged write
upsert_record_to_xlsm_rewriting(wb, data, sheet_name, save_mode, env) ==
    CHOOSE result \in
      { IF after.excel = "row" /\ after.verified
        THEN CHOOSE rewritten \in
               { [after EXCEPT !.wb = fallback.wb, !.raised = fallback.raised,
                               !.fallback = TRUE, !.row = fallback.row]
                 : fallback \in {_upsert_with_openpyxl(after.wb, normalize_form_keys(data),
                                                       sheet_name, save_mode,
                                                       after.excel_row, env)} } : TRUE
        ELSE after
        : after \in {AfterExcelAttempt(_try_upsert_with_excel(wb, normalize_form_keys(data),
                                                              sheet_name, save_mode, env),
                                       normalize_form_keys(data), sheet_name, save_mode,
                                       env)} } : TRUE

upsert_record_to_xlsm(wb, data, sheet_name, save_mode, env) ==
    CHOOSE result \in
      { AfterExcelAttempt(com, normalized_data, sheet_name, save_mode, env)
        : normalized_data \in {normalize_form_keys(data)},
          com \in {_try_upsert_with_excel(wb, normalize_form_keys(data), sheet_name,
                                          save_mode, env)} } : TRUE

\* The environments of a call, without those that differ from another only in a
\* component the call never consults
Envs ==
    { e \in [excel : {"unavailable", "fails", "ok"}, coerce : BOOLEAN, readable : BOOLEAN,
             file : {"ok", "load_denied", "save_denied"}] :
        /\ e.excel # "ok" => (~e.coerce /\ e.readable)
        /\ e.excel = "fails" => e.file # "save_denied"
        /\ e.coerce => e.readable
        /\ (e.excel = "ok" /\ ~e.coerce /\ e.readable) => e.file = "ok" }

----------------------------------------------------------------------------
(* The startup load (MainWindow.__init__) and the lookup, over a family of *)
(* sheets: specification SpecLoad.                                         *)

\* Two item numbers (8 digits) and the same numbers as the sheet may hold them
ITEM_A == <<"1", "0", "0", "0", "0", "0", "0", "1">>
ITEM_B == <<"1", "0", "0", "0", "0", "0", "0", "2">>
ITEM_A_NUMBER == 10000001

TEXT_A == <<"a">>
TEXT_B == <<"b">>

\* Header rows of three columns: the key column plain or padded with whitespace, a
\* second column that may repeat the key column's name or be blank, a third column.
LoadHeaders ==
    { <<StrCell(ITEM_NO), StrCell(ITEM_NAME), StrCell(COLOR_COUNT)>>,
      <<StrCell(<<WS, "ItemNo", WS>>), StrCell(ITEM_NAME), None>>,
      <<StrCell(ITEM_NAME), StrCell(ITEM_NO), StrCell(<<WS>>)>>,
      <<StrCell(ITEM_NO), StrCell(ITEM_NO), StrCell(ITEM_NAME)>>,
      <<StrCell(ITEM_NAME), StrCell(COLOR_COUNT), None>>,
      <<StrCell(ITEM_NO), StrCell(<<"ItemName", WS>>), StrCell(ITEM_NAME)>> }

LoadCells ==
    { None, StrCell(<<>>), StrCell(ITEM_A), StrCell(ITEM_B), IntCell(ITEM_A_NUMBER),
      FloatCell(4, 0) }
LoadRows ==
    { <<a>> \o bc : a \in LoadCells,
                    bc \in { <<None, None>>, <<StrCell(TEXT_A), FloatCell(4, 0)>>,
                             <<StrCell(ITEM_B), None>> } }

RECURSIVE SeqsUpTo(_, _)
SeqsUpTo(S, n) ==
    IF n = 0 THEN {<<>>}
    ELSE LET shorter == SeqsUpTo(S, n - 1)
         IN shorter \cup {Append(q, x) : q \in {r \in shorter : Len(r) = n - 1}, x \in S}

LoadSheets == { <<h>> \o rows : h \in LoadHeaders, rows \in SeqsUpTo(LoadRows, MaxLoadRows) }

NoFind == [column |-> <<>>, value |-> <<>>, record |-> Nothing, alias |-> Nothing]
NoSave == [outcome |-> "none"]
NoFetches == [started |-> 0, delivered |-> 0]

\* The window before the form has been used
IdleWindow ==
    /\ widgets = <<>>
    /\ save_button = [text |-> NEW_MODE, enabled |-> FALSE]
    /\ cylinder_units = <<>>
    /\ last_fetched_item = <<>>
    /\ fetch_workers = <<>>
    /\ last_find = NoFind
    /\ last_save = NoSave
    /\ n_saves = 0
    /\ call_stack = <<>>
    /\ fetch_log = NoFetches

InitLoad ==
    /\ book \in {[sheet \in {ORDER_SHEET} |-> ws] : ws \in LoadSheets}
    /\ preloaded_data = <<>>
    /\ record_index = <<>>
    /\ pc = "loading"
    /\ IdleWindow

\* MainWindow.__init__, the branch that applies a finished load
ApplyLoad ==
    /\ pc = "loading"
    /\ LET data == extract_initial_data(book)
       IN /\ preloaded_data' = data
          /\ record_index' = [sheet \in DOMAIN data |->
                                 build_record_index(data[sheet], SEARCH_COLUMNS)]
    /\ pc' = "ready"
    /\ UNCHANGED <<call_stack, fetch_log>>
    /\ UNCHANGED <<book, widgets, save_button, cylinder_units, last_fetched_item,
                   fetch_workers, last_find, last_save, n_saves>>

\* A call find_record_by_column(sheet_index, column, value) on the loaded index
Find ==
    /\ pc = "ready"
    /\ ORDER_SHEET \in DOMAIN record_index
    /\ \E column \in {ITEM_NO, ITEM_NAME},
          value \in {<<>>, ITEM_A, ITEM_B, <<"4", ".", "0">>} :
          LET call == find_record_by_column(record_index[ORDER_SHEET], column, value)
          IN /\ record_index' = [record_index EXCEPT ![ORDER_SHEET] = call.index_map]
             /\ last_find' = [column |-> column, value |-> value, record |-> call.record,
                               alias |-> call.alias]
    /\ UNCHANGED <<call_stack, fetch_log>>
    /\ UNCHANGED <<book, preloaded_data, widgets, save_button, cylinder_units,
                   last_fetched_item, fetch_workers, last_save, n_saves, pc>>

NextLoad == ApplyLoad \/ Find

SpecLoad == InitLoad /\ [][NextLoad]_vars

----------------------------------------------------------------------------
(* Claims about the index and the lookup (SpecLoad) *)

LoadedTable == preloaded_data[ORDER_SHEET]
LoadedIndex == record_index[ORDER_SHEET]
TableHeaders(table) == [i \in 1..Len(table[1]) |-> normalize_header_name(table[1][i])]
Loaded == pc = "ready" /\ ORDER_SHEET \in DOMAIN preloaded_data
KeyColumnOf(table) == ListIndex(TableHeaders(table), ITEM_NO)
HasKeyColumn(table) == \E i \in 1..Len(table[1]) : TableHeaders(table)[i] = ITEM_NO

\* rec is a normalized Record of data row r: its names are the non-blank trimmed
\* header names, and each name holds the string of the row's cell in a column of
\* that name ("" for None)
IsRecordOfRow(rec, table, r) ==
    LET headers == TableHeaders(table)
    IN /\ DOMAIN rec = {headers[i] : i \in 1..Len(headers)} \ {<<>>}
       /\ \A h \in DOMAIN rec : \E i \in 1..Len(headers) :
             /\ headers[i] = h
             /\ rec[h] = IF table[r][i] = None THEN <<>> ELSE PyStr(table[r][i])

LookupOfRowKey(table, r) ==
    find_record_by_column(LoadedIndex, ITEM_NO, PyStr(table[r][KeyColumnOf(table)])).record

\* C1 (as stated): after the index has been built, the lookup of the key of every
\* data row with a non-empty key cell returns the Record of that row.
C1_LookupReturnsRowRecord ==
    (Loaded /\ HasKeyColumn(LoadedTable)) =>
        \A r \in 2..Len(LoadedTable) :
            ~IsBlankCell(LoadedTable[r][KeyColumnOf(LoadedTable)]) =>
                /\ LookupOfRowKey(LoadedTable, r).some
                /\ IsRecordOfRow(LookupOfRowKey(LoadedTable, r).val, LoadedTable, r)

\* C1 (amended): the lookup of the key of a data row with a non-empty key cell
\* returns the Record of the last data row whose key cell has the same string; it is
\* the Record of the row itself when no later row shares its key.
C1_LookupReturnsLastRowRecord ==
    (Loaded /\ HasKeyColumn(LoadedTable)) =>
        \A r \in 2..Len(LoadedTable) :
            LET k == KeyColumnOf(LoadedTable)
                same == {q \in 2..Len(LoadedTable) :
                            /\ LoadedTable[q][k] # None
                            /\ PyStr(LoadedTable[q][k]) = PyStr(LoadedTable[r][k])}
            IN ~IsBlankCell(LoadedTable[r][k]) =>
                /\ LookupOfRowKey(LoadedTable, r).some
                /\ IsRecordOfRow(LookupOfRowKey(LoadedTable, r).val, LoadedTable,
                                 SetMax(same))

\* C1 witness: a loaded table of two rows with the same non-empty key and different
\* cells elsewhere, and a lookup of that key that found a Record
C1_Witness ==
    /\ Loaded /\ HasKeyColumn(LoadedTable) /\ Len(LoadedTable) = 3
    /\ LET k == KeyColumnOf(LoadedTable)
       IN /\ ~IsBlankCell(LoadedTable[2][k])
          /\ LoadedTable[3][k] # None
          /\ PyStr(LoadedTable[2][k]) = PyStr(LoadedTable[3][k])
          /\ LoadedTable[2] # LoadedTable[3]
          /\ last_find.column = ITEM_NO
          /\ last_find.value = PyStr(LoadedTable[2][k])
          /\ last_find.record.some

\* The key of data row r in column idx: str() of a cell that is not None
HasKey(table, idx, r) == idx <= Len(table[r]) /\ table[r][idx] # None
KeyOf(table, idx, r) == PyStr(table[r][idx])

\* C17: in every column of the built index, a key that two or more data rows share
\* holds the Record of the last of these rows in the order of the table
C17_LastRowOfSharedKeyWins ==
    Loaded =>
        \A column \in DOMAIN LoadedIndex :
            LET idx == ListIndex(TableHeaders(LoadedTable), column)
            IN \A q, r \in 2..Len(LoadedTable) :
                  ( /\ q < r
                    /\ HasKey(LoadedTable, idx, q)
                    /\ HasKey(LoadedTable, idx, r)
                    /\ KeyOf(LoadedTable, idx, q) = KeyOf(LoadedTable, idx, r)
                    /\ \A later \in (r + 1)..Len(LoadedTable) :
                          ~( /\ HasKey(LoadedTable, idx, later)
                             /\ KeyOf(LoadedTable, idx, later) = KeyOf(LoadedTable, idx, r) ) )
                  => /\ KeyOf(LoadedTable, idx, r) \in DOMAIN LoadedIndex[column]
                     /\ LoadedIndex[column][KeyOf(LoadedTable, idx, r)]
                          = RowRecord(TableHeaders(LoadedTable), LoadedTable[r])

\* C17, its case: an index built from two data rows that share a key, one as a text
\* and one as a number, and whose Records differ
C17_Witness ==
    /\ Loaded /\ HasKeyColumn(LoadedTable) /\ Len(LoadedTable) = 3
    /\ LET idx == KeyColumnOf(LoadedTable)
       IN /\ HasKey(LoadedTable, idx, 2) /\ HasKey(LoadedTable, idx, 3)
          /\ LoadedTable[2][idx] # LoadedTable[3][idx]
          /\ KeyOf(LoadedTable, idx, 2) = KeyOf(LoadedTable, idx, 3)
          /\ RowRecord(TableHeaders(LoadedTable), LoadedTable[2])
               # RowRecord(TableHeaders(LoadedTable), LoadedTable[3])
          /\ LoadedIndex[ITEM_NO][KeyOf(LoadedTable, idx, 3)]
               = RowRecord(TableHeaders(LoadedTable), LoadedTable[3])

\* C25: the index build skips the rows whose key cell is empty (None or ""): the key
\* column's mapping has no entry for the empty key, and a lookup of the empty key
\* finds no Record.
C25_EmptyKeyRowsSkipped ==
    (Loaded /\ ITEM_NO \in DOMAIN LoadedIndex) =>
        /\ <<>> \notin DOMAIN LoadedIndex[ITEM_NO]
        /\ (last_find.column = ITEM_NO /\ last_find.value = <<>>)
              => ~last_find.record.some

\* The cell of a table row in column i, None when the row is shorter
CellOfRow(row, i) == IF i <= Len(row) THEN row[i] ELSE None

\* C26: every key of the built index and every value of its Records is the rendering
\* of a cell of a data row in which None reads "" and a number with an integral value
\* reads without a fractional part (4.0 reads "4"); the digits of a key cell that
\* holds such a number are a key of the index.
C26_IndexRendersIntegralNumbers ==
    Loaded =>
        \A column \in DOMAIN LoadedIndex :
            LET headers == TableHeaders(LoadedTable)
                idx == ListIndex(headers, column)
            IN /\ \A r \in 2..Len(LoadedTable) :
                     HasKey(LoadedTable, idx, r)
                       => _normalize_cell_text(LoadedTable[r][idx])
                             \in DOMAIN LoadedIndex[column]
               /\ \A key \in DOMAIN LoadedIndex[column] :
                     \E r \in 2..Len(LoadedTable) :
                        /\ HasKey(LoadedTable, idx, r)
                        /\ key = _normalize_cell_text(LoadedTable[r][idx])
                        /\ \A h \in DOMAIN LoadedIndex[column][key] :
                              \E i \in 1..Len(headers) :
                                 /\ headers[i] = h
                                 /\ LoadedIndex[column][key][h]
                                      = _normalize_cell_text(CellOfRow(LoadedTable[r], i))

\* C27: the Record the index holds for a data row takes the value of every name from
\* the column that the persistence engine's header map gives that name, which is the
\* first column of the name when two header cells trim to the same name; a blank
\* header name is a name of neither.
C27_RecordUsesHeaderMapColumn ==
    Loaded =>
        \E header_map \in {_build_header_map_from_sheet(book[ORDER_SHEET])} :
           /\ <<>> \notin DOMAIN header_map
           /\ \A column \in DOMAIN LoadedIndex :
                 LET idx == ListIndex(TableHeaders(LoadedTable), column)
                 IN \A r \in 2..Len(LoadedTable) :
                       ( /\ HasKey(LoadedTable, idx, r)
                         /\ \A later \in (r + 1)..Len(LoadedTable) :
                               ~( /\ HasKey(LoadedTable, idx, later)
                                  /\ KeyOf(LoadedTable, idx, later)
                                       = KeyOf(LoadedTable, idx, r) ) )
                       => \E rec \in {LoadedIndex[column][KeyOf(LoadedTable, idx, r)]} :
                             /\ DOMAIN rec = DOMAIN header_map
                             /\ \A h \in DOMAIN rec :
                                   \E cell \in {CellOfRow(LoadedTable[r], header_map[h])} :
                                      rec[h] = IF cell = None THEN <<>> ELSE PyStr(cell)

\* C10: a call of find_record_by_column leaves the index as it was, whether or not
\* the column is in the index and whether or not the value is a key of it.
C10_FindDoesNotMutateIndex == [][Find => record_index' = record_index]_vars

\* C10 witness: lookups have run for a column the index does not hold and, in
\* another state, found a key of a column it holds
C10_Witness ==
    /\ Loaded
    /\ last_find.column \notin DOMAIN LoadedIndex
    /\ last_find.value = ITEM_A
    /\ ~last_find.record.some

----------------------------------------------------------------------------
(* The record a lookup hands out, in the hands of its caller: specification *)
(* SpecAlias.  The caller of find_record_by_column holds the dict object    *)
(* the index stores, so an item assignment on it is one on the index.       *)

\* The text a caller writes into the record it was handed
CALLER_TEXT == <<"m">>

\* record[ITEM_NAME] = CALLER_TEXT in the caller of the last lookup that found one
MutateReturned ==
    /\ pc = "ready"
    /\ last_find.alias.some
    /\ ITEM_NAME \in DOMAIN last_find.record.val
    /\ last_find.record.val[ITEM_NAME] # CALLER_TEXT
    /\ LET column == last_find.alias.val[1]
           value == last_find.alias.val[2]
       IN /\ record_index' =
                [record_index EXCEPT ![ORDER_SHEET][column][value][ITEM_NAME] = CALLER_TEXT]
          /\ last_find' = [last_find EXCEPT !.record.val[ITEM_NAME] = CALLER_TEXT]
    /\ UNCHANGED <<call_stack, fetch_log>>
    /\ UNCHANGED <<book, preloaded_data, widgets, save_button, cylinder_units,
                   last_fetched_item, fetch_workers, last_save, n_saves, pc>>

NextAlias == ApplyLoad \/ Find \/ MutateReturned

SpecAlias == InitLoad /\ [][NextAlias]_vars

\* C11 (as stated): a Record handed out by a lookup is a snapshot copy, so when its
\* holder mutates it, a later lookup of the same key returns what the lookup
\* returned before the mutation.
C11_ReturnedRecordIsSnapshot ==
    [][ MutateReturned =>
          find_record_by_column(record_index'[ORDER_SHEET], last_find.column,
                                last_find.value).record
            = find_record_by_column(record_index[ORDER_SHEET], last_find.column,
                                    last_find.value).record ]_vars

----------------------------------------------------------------------------
(* The persistence engine called on a family of sheets: specification      *)
(* SpecUpsert.  last_save holds the last call and the course it took.      *)

\* 備考, a column of the sheet that no form field names
MEMO == <<"Memo">>
LEADING_ZERO_TEXT == <<"0", "7">>

UpsertHeaders ==
    { <<StrCell(ITEM_NO), StrCell(ITEM_NAME), StrCell(MEMO)>>,
      <<StrCell(<<WS, "ItemNo">>), StrCell(ITEM_NAME), StrCell(ITEM_NAME)>>,
      <<StrCell(ITEM_NAME), StrCell(MEMO), None>> }
UpsertRows ==
    { <<None, StrCell(TEXT_A), None>>,
      <<StrCell(ITEM_A), StrCell(TEXT_A), StrCell(TEXT_B)>>,
      <<StrCell(ITEM_A \o <<WS>>), None, StrCell(TEXT_B)>>,
      <<FloatCell(ITEM_A_NUMBER, 0), StrCell(TEXT_A), None>>,
      <<StrCell(ITEM_B), None, StrCell(TEXT_B)>> }
\* An item number of 8 digits that begins with zeros
ITEM_Z == <<"0", "0", "0", "0", "0", "0", "0", "7">>

\* Sheets in which the item number with the zeros is the text of one key cell or of
\* two
ZeroKeySheets ==
    { <<<<StrCell(ITEM_NO), StrCell(ITEM_NAME), StrCell(MEMO)>>>> \o rows :
        rows \in { <<<<StrCell(ITEM_Z), StrCell(TEXT_B), None>>>>,
                   <<<<StrCell(ITEM_Z), StrCell(TEXT_B), None>>,
                     <<StrCell(ITEM_Z), None, StrCell(TEXT_B)>>>> } }

UpsertSheets ==
    { <<h>> \o rows : h \in UpsertHeaders, rows \in SeqsUpTo(UpsertRows, MaxUpsertRows) }
      \cup ZeroKeySheets

\* The form dicts of the calls: the key, a field whose form key is padded, and a
\* field the sheet has no column for
UpsertData ==
    ( { << <<ITEM_NO, k>>, <<ITEM_NAME \o <<WS>>, n>>, <<COLOR_COUNT, <<"2">>>> >> :
          k \in {ITEM_A, ITEM_B}, n \in {TEXT_A, LEADING_ZERO_TEXT} } \
      { << <<ITEM_NO, ITEM_B>>, <<ITEM_NAME \o <<WS>>, TEXT_A>>, <<COLOR_COUNT, <<"2">>>> >> } )
    \cup { << <<ITEM_NO, ITEM_Z>>, <<ITEM_NAME \o <<WS>>, TEXT_A>>, <<COLOR_COUNT, <<"2">>>> >> }

InitUpsert ==
    /\ book \in {[sheet \in {ORDER_SHEET} |-> ws] : ws \in UpsertSheets}
                  \cup {[sheet \in {CYLINDER_SHEET} |-> <<<<None>>>>]}
    /\ preloaded_data = <<>>
    /\ record_index = <<>>
    /\ pc = "upsert"
    /\ IdleWindow

CallRecord(save_mode, data, env, done) ==
    [outcome |-> IF done.raised = "" THEN "saved" ELSE "failed",
     mode |-> save_mode, data |-> normalize_form_keys(data), env |-> env,
     repeat |-> /\ last_save.outcome = "saved" /\ done.raised = ""
                /\ last_save.mode = save_mode
                /\ last_save.data = normalize_form_keys(data),
     raised |-> done.raised, excel |-> done.excel, excel_row |-> done.excel_row,
     verified |-> done.verified, fallback |-> done.fallback, row |-> done.row]

\* One call upsert_record_to_xlsm(path, data, sheet, save_mode)
Upsert ==
    /\ pc = "upsert"
    /\ n_saves < MaxSaves
    /\ \E data \in UpsertData, save_mode \in {NEW_MODE, OVERWRITE_MODE}, env \in Envs :
          \E done \in {upsert_record_to_xlsm(book, data, ORDER_SHEET, save_mode, env)} :
             /\ book' = done.wb
             /\ last_save' = CallRecord(save_mode, data, env, done)
    /\ n_saves' = n_saves + 1
    /\ UNCHANGED <<call_stack, fetch_log>>
    /\ UNCHANGED <<preloaded_data, record_index, widgets, save_button, cylinder_units,
                   last_fetched_item, fetch_workers, last_find, pc>>

NextUpsert == Upsert

SpecUpsert == InitUpsert /\ [][NextUpsert]_vars

----------------------------------------------------------------------------
(* Claims about the persistence engine (SpecUpsert) *)

HasKeyedSheet(wb) ==
    /\ ORDER_SHEET \in DOMAIN wb
    /\ ITEM_NO \in DOMAIN _build_header_map_from_sheet(wb[ORDER_SHEET])
KeyColumnIn(wb) == _build_header_map_from_sheet(wb[ORDER_SHEET])[ITEM_NO]

\* Row r carries key: its key cell reads as key, as either write path reads it
CarriesKey(ws, c, r, key) ==
    \/ ExcelKeyText(CellValue(ws, r, c)) = key
    \/ _normalize_cell_text(CellValue(ws, r, c)) = key
RowsCarrying(wb, key) ==
    {r \in 2..Len(wb[ORDER_SHEET]) : CarriesKey(wb[ORDER_SHEET], KeyColumnIn(wb), r, key)}

\* The text of every cell: the document as the verification read compares it
SheetText(ws) == [r \in 1..Len(ws) |-> [c \in 1..Len(ws[r]) |-> _normalize_cell_text(ws[r][c])]]

\* Row r of the sheet holds the text of every field of data that names a column
RowHoldsData(wb, r, data) ==
    LET ws == wb[ORDER_SHEET]
        header_map == _build_header_map_from_sheet(ws)
    IN \A h \in DOMAIN header_map \cap DOMAIN data :
          _normalize_cell_text(CellValue(ws, r, header_map[h])) = data[h]

\* C2: an overwrite upsert whose key matches no row of the key column fails with the
\* row-not-found error of the path that resolves the row (the privileged attempt, or
\* the fallback when the attempt gave nothing; a fallback that cannot open the file
\* resolves no row), appends nothing and leaves the document as it was.
C2_OverwriteAbsentKeyFails ==
    [][ ( /\ last_save'.mode = OVERWRITE_MODE
          /\ HasKeyedSheet(book)
          /\ RowsCarrying(book, last_save'.data[ITEM_NO]) = {} )
        => /\ book' = book
           /\ last_save'.outcome = "failed"
           /\ \/ last_save'.raised = "ValueError: row not found"
              \/ /\ last_save'.excel = "none"
                 /\ last_save'.raised = "PermissionError: close Excel" ]_vars

\* C2 witness: an overwrite of a key no row carried was refused by the fallback (the
\* privileged attempt having given nothing) in a sheet that holds another key
C2_Witness ==
    /\ pc = "upsert" /\ HasKeyedSheet(book)
    /\ last_save.outcome = "failed" /\ last_save.mode = OVERWRITE_MODE
    /\ last_save.raised = "ValueError: row not found"
    /\ last_save.fallback
    /\ RowsCarrying(book, last_save.data[ITEM_NO]) = {}
    /\ RowsCarrying(book, ITEM_A) # {}

\* C3: a successful new-registration upsert whose key some row already carries writes
\* the row right after the last populated key-column row: that row alone changes, it
\* carries the key afterwards and did not before, and the rows that carried the key
\* are as they were.
C3_NewOnExistingKeyAppends ==
    [][ ( /\ last_save'.mode = NEW_MODE
          /\ last_save'.outcome = "saved"
          /\ HasKeyedSheet(book)
          /\ RowsCarrying(book, last_save'.data[ITEM_NO]) # {} )
        => LET key == last_save'.data[ITEM_NO]
               ws == book[ORDER_SHEET]
               target == SetMax({1, LastFilledRowIn(ws, KeyColumnIn(book))}) + 1
           IN /\ last_save'.row = target
              /\ RowsCarrying(book', key) = RowsCarrying(book, key) \cup {target}
              /\ target \notin RowsCarrying(book, key)
              /\ Cardinality(RowsCarrying(book', key))
                    = Cardinality(RowsCarrying(book, key)) + 1
              /\ \A r \in 1..Len(ws) : r # target => book'[ORDER_SHEET][r] = ws[r]
              /\ RowHoldsData(book', target, last_save'.data) ]_vars

\* C3 witness: a new registration of a key that a row carried succeeded through the
\* fallback after the privileged attempt's row had failed verification
C3_Witness ==
    /\ pc = "upsert" /\ HasKeyedSheet(book)
    /\ last_save.outcome = "saved" /\ last_save.mode = NEW_MODE
    /\ last_save.excel = "row" /\ last_save.fallback
    /\ Cardinality(RowsCarrying(book, last_save.data[ITEM_NO])) = 2

AttemptOfCall ==
    _try_upsert_with_excel(book, last_save'.data, ORDER_SHEET, last_save'.mode,
                           last_save'.env)

\* C21: the fallback runs exactly when the privileged attempt returned no row or the
\* verification of its row failed; after a verified row the document is as the
\* attempt left it, with no second write
C21_FallbackIffNoVerifiedRow ==
    [][ /\ last_save'.fallback
             <=> \/ last_save'.excel = "none"
                 \/ last_save'.excel = "row" /\ ~last_save'.verified
        /\ last_save'.excel = "row"
             => \E com \in {AttemptOfCall} :
                   /\ com.raised = ""
                   /\ com.row = last_save'.excel_row
                   /\ _verify_saved_row(com.wb, ORDER_SHEET, com.row, last_save'.data,
                                        last_save'.env)
                        = last_save'.verified
                   /\ last_save'.verified
                        => book' = com.wb /\ last_save'.row = com.row ]_vars

\* C21, its case: a new registration that the privileged attempt wrote and the
\* verification accepted, after an earlier one whose row the fallback had rewritten
C21_Witness ==
    /\ pc = "upsert" /\ HasKeyedSheet(book)
    /\ n_saves = 2
    /\ last_save.outcome = "saved" /\ last_save.mode = NEW_MODE
    /\ last_save.excel = "row" /\ last_save.verified /\ ~last_save.fallback
    /\ last_save.row = Len(book[ORDER_SHEET])

\* A row resolved from scratch: for an overwrite the first row from row 2 down whose
\* key cell reads as the key (no row when there is none), for a new registration the
\* row after the last populated row of the key column
FromScratch(ws, item_column, key, save_mode) ==
    IF save_mode = OVERWRITE_MODE
    THEN LET matches == {r \in 2..max_row(ws) :
                            _normalize_cell_text(CellValue(ws, r, item_column)) = key}
         IN IF matches = {} THEN NoRow ELSE SetMin(matches)
    ELSE SetMax({1, LastFilledRowIn(ws, item_column)}) + 1

\* The hinted row's key cell, in the document the fallback loads, reads as the key
HintCarriesKey(seen) ==
    _normalize_cell_text(CellValue(seen[ORDER_SHEET], last_save'.excel_row,
                                   KeyColumnIn(seen))) = last_save'.data[ITEM_NO]

\* The fallback of the call that last_save' records resolved a row, or found none
FallbackResolved ==
    /\ last_save'.fallback
    /\ HasKeyedSheet(book)
    /\ last_save'.raised \in {"", "ValueError: row not found"}

\* C22 (as stated): in either mode the fallback writes the hinted row only if that
\* row's key cell is the request's key, and otherwise a row resolved from scratch
C22_HintUsedOnlyIfKeyMatches ==
    [][ FallbackResolved =>
          \E seen \in {AttemptOfCall.wb} :
             last_save'.row =
                IF last_save'.excel = "row" /\ HintCarriesKey(seen)
                THEN last_save'.excel_row
                ELSE FromScratch(seen[ORDER_SHEET], KeyColumnIn(seen),
                                 last_save'.data[ITEM_NO], last_save'.mode) ]_vars

\* C22 (amended): an overwrite writes the hinted row only if that row's key cell is
\* the request's key and otherwise the row resolved from scratch; a new registration
\* writes the hinted row whenever there is one, whatever its key cell holds, and the
\* row resolved from scratch when there is none
C22_HintCheckedForOverwriteOnly ==
    [][ FallbackResolved =>
          \E seen \in {AttemptOfCall.wb} :
             last_save'.row =
                IF /\ last_save'.excel = "row"
                   /\ (last_save'.mode = OVERWRITE_MODE => HintCarriesKey(seen))
                THEN last_save'.excel_row
                ELSE FromScratch(seen[ORDER_SHEET], KeyColumnIn(seen),
                                 last_save'.data[ITEM_NO], last_save'.mode) ]_vars

\* C22, its case: a new registration of a key that begins with zeros, which the
\* privileged write stored as a number, so that the hinted row's key cell was not the
\* key; the fallback wrote the hinted row
C22_Witness ==
    /\ pc = "upsert" /\ HasKeyedSheet(book)
    /\ last_save.outcome = "saved" /\ last_save.mode = NEW_MODE
    /\ last_save.excel = "row" /\ last_save.fallback
    /\ last_save.env.coerce
    /\ last_save.data[ITEM_NO] = ITEM_Z
    /\ last_save.row = last_save.excel_row
    /\ last_save.row = Len(book[ORDER_SHEET])

\* The rows whose key cell, rendered as the plain read renders a cell, is key
RowsRenderedAs(wb, key) ==
    {r \in 2..Len(wb[ORDER_SHEET]) :
        _normalize_cell_text(CellValue(wb[ORDER_SHEET], r, KeyColumnIn(wb))) = key}

\* C23: a successful overwrite upsert of a key that several rows carry writes the
\* first of those rows, counted from row 2 down, whichever path made the write, and
\* leaves every other row that carries the key as it was.
C23_OverwriteWritesFirstCarrier ==
    [][ ( /\ last_save'.mode = OVERWRITE_MODE
          /\ last_save'.outcome = "saved"
          /\ HasKeyedSheet(book)
          /\ Cardinality(RowsRenderedAs(book, last_save'.data[ITEM_NO])) >= 2 )
        => \E carriers \in {RowsRenderedAs(book, last_save'.data[ITEM_NO])} :
              /\ last_save'.row = SetMin(carriers)
              /\ \A r \in carriers \ {SetMin(carriers)} :
                    book'[ORDER_SHEET][r] = book[ORDER_SHEET][r] ]_vars

\* The column c of ws is named by a field of data: its trimmed header name is a key
NamedByRequest(ws, c, data) ==
    /\ CellValue(ws, 1, c) # None
    /\ normalize_header_name(CellValue(ws, 1, c)) \in DOMAIN data

\* C24: a successful upsert changes cells of its target row only, and there only in
\* columns whose trimmed header name is a field of the request; a cell it changes
\* reads as the request's value afterwards, the column the header map gives a field
\* holds that field's value, and the header row, the width of the sheet and every
\* other cell (a cell below the old grid reading None) are as they were.
C24_UpsertChangesTargetFieldsOnly ==
    [][ last_save'.outcome = "saved"
        => \E ws \in {book[ORDER_SHEET]}, after \in {book'[ORDER_SHEET]} :
              /\ DOMAIN book' = DOMAIN book
              /\ after[1] = ws[1]
              /\ max_row(after) >= max_row(ws)
              /\ \A r \in 2..max_row(after) : Len(after[r]) = max_column(ws)
              /\ RowHoldsData(book', last_save'.row, last_save'.data)
              /\ \A r \in 2..max_row(after), c \in 1..max_column(ws) :
                    \/ CellValue(after, r, c) = CellValue(ws, r, c)
                    \/ /\ r = last_save'.row
                       /\ NamedByRequest(ws, c, last_save'.data)
                       /\ _normalize_cell_text(CellValue(after, r, c))
                            = last_save'.data[normalize_header_name(CellValue(ws, 1, c))] ]_vars

----------------------------------------------------------------------------
(* The window (MainWindow) after a successful startup load: specification  *)
(* Spec.  The form has three line edits, in the order of the layout: the   *)
(* item number, the item name and the color count.  The window's own state *)
(* is handled as one record w (widgets, save_button, cylinder_units,       *)
(* last_fetched_item, fetch_workers) that each handler maps to the record  *)
(* it leaves.  A handler runs from its start to its end in one step.       *)

\* Largest number of on_save calls in one behaviour of Spec
MaxWindowSaves == 1
\* The save clicks of a run of SpecMode
MaxModeSaves == 2
\* Largest number of lookups in flight when the user edits the item number
MaxWorkers == 1
\* Largest number of data rows of the order sheet at startup
MaxWindowRows == 1

\* range(0, 11): the order numbers that have a cylinder column
MAX_ORDER == 10

excel_sheet == ORDER_SHEET
FieldOrder == <<ITEM_NO, ITEM_NAME, COLOR_COUNT>>

CYL_CODE == <<"9", "0", "0", "0", "0", "0", "0", "0", "1">>

FullWidthGlyph(g) ==
    CASE g = "0" -> "fw0" [] g = "1" -> "fw1" [] g = "2" -> "fw2" [] g = "3" -> "fw3"
      [] g = "4" -> "fw4" [] g = "5" -> "fw5" [] g = "6" -> "fw6" [] g = "7" -> "fw7"
      [] g = "8" -> "fw8" [] g = "9" -> "fw9"

\* str(num).translate(_FW_TABLE)
to_full_width(num) ==
    [i \in 1..Len(IntToStr(num)) |-> FullWidthGlyph(IntToStr(num)[i])]

\* f"{to_full_width(order)}色目シリンダー"
CylinderColumn(order) == to_full_width(order) \o <<"thColorCylinder">>

\* A digit that str.isdigit() accepts and that int() and \d do not: the superscript 2
SUPERSCRIPT_TWO == "sup2"

\* str.isdigit()
IsDigitText(text) ==
    /\ text # <<>>
    /\ \A i \in 1..Len(text) : text[i] \in Digit \cup FullWidthDigit \cup {SUPERSCRIPT_TWO}

\* The texts of decimal digits, ASCII or full-width: what int() converts and \d+ matches
IsDecimalText(text) ==
    text # <<>> /\ \A i \in 1..Len(text) : text[i] \in Digit \cup FullWidthDigit

\* int(text) for a text of decimal digits
RECURSIVE PyInt(_)
PyInt(text) ==
    IF text = <<>> THEN 0
    ELSE 10 * PyInt(SubSeq(text, 1, Len(text) - 1)) + DigitValue(text[Len(text)])

\* re.fullmatch(r"\d{n}", text)
FullMatchDigits(text, n) == Len(text) = n /\ IsDecimalText(text)

Range(seq) == {seq[i] : i \in 1..Len(seq)}

\* _collect_cylinder_candidates: the 9-digit texts of the composite-key column of the
\* loaded cylinder sheet, each once, in row order (rows 2..r)
RECURSIVE CandidatesUpTo(_, _, _)
CandidatesUpTo(data, idx, r) ==
    IF r < 2 THEN <<>>
    ELSE LET before == CandidatesUpTo(data, idx, r - 1)
             cyl_cell == IF idx <= Len(data[r]) /\ data[r][idx] # None
                         THEN PyStr(data[r][idx]) ELSE <<>>
         IN IF FullMatchDigits(cyl_cell, 9) /\ cyl_cell \notin Range(before)
            THEN Append(before, cyl_cell) ELSE before

_collect_cylinder_candidates(preloaded) ==
    IF CYLINDER_SHEET \notin DOMAIN preloaded \/ preloaded[CYLINDER_SHEET] = <<>>
    THEN <<>>
    ELSE LET data == preloaded[CYLINDER_SHEET]
             headers == [i \in 1..Len(data[1]) |->
                            IF data[1][i] # None THEN PyStr(data[1][i]) ELSE <<>>]
         IN IF ITEM_NO_ORDER_COL \in Range(headers)
            THEN CandidatesUpTo(data, ListIndex(headers, ITEM_NO_ORDER_COL), Len(data))
            ELSE IF ITEM_NO_ORDER \in Range(headers)
            THEN CandidatesUpTo(data, ListIndex(headers, ITEM_NO_ORDER), Len(data))
            ELSE <<>>

\* CylinderUnit(...): the order combo offers "0" and "1", shows "0" and is enabled;
\* the editable cylinder combo shows the first candidate when there is one
NewCylinderUnit(candidates) ==
    [order |-> <<"0">>, order_enabled |-> TRUE,
     cylinder |-> IF candidates = <<>> THEN <<>> ELSE candidates[1],
     color |-> <<>>, width |-> <<>>]

\* FetchWorker(index, item_no).start(): a thread that has not yet looked up its item.
\* phase is "started", then "emitted" once run() has emitted its result, then
\* "finished" once the thread has ended; held says that MainWindow._fetch_worker is
\* this object, the one reference the program keeps to it.
FetchWorker(item_no) ==
    [item_no |-> item_no, phase |-> "started", record |-> Nothing, held |-> TRUE]

\* MainWindow._fetch_worker is rebound: the worker it held loses its last reference
Release(workers) == [i \in 1..Len(workers) |-> [workers[i] EXCEPT !.held = FALSE]]

\* The worker that loses its last reference is a QThread that has not ended: Qt ends
\* the process ("QThread: Destroyed while thread is still running")
DestroyedWhileRunning(workers) ==
    \E i \in 1..Len(workers) : workers[i].held /\ workers[i].phase # "finished"

update_button_states(w, index) ==
    LET item_text == strip(w.widgets[ITEM_NO])
        sheet_index == DictGetOr(index, excel_sheet, EmptyDict)
        exists == /\ item_text # <<>>
                  /\ DOMAIN sheet_index # {}
                  /\ find_record_by_column(sheet_index, ITEM_NO, item_text).record.some
    IN [w EXCEPT !.save_button =
                    [text |-> IF exists THEN OVERWRITE_MODE ELSE NEW_MODE,
                     enabled |-> item_text # <<>>]]

on_fetch(w, index) ==
    LET item_no == strip(w.widgets[ITEM_NO])
        sheet_index == DictGetOr(index, excel_sheet, EmptyDict)
    IN IF item_no = <<>> \/ ~FullMatchDigits(item_no, 8) \/ DOMAIN sheet_index = {}
       THEN w
       ELSE [w EXCEPT !.fetch_workers = Append(Release(@), FetchWorker(item_no)),
                      !.aborted = @ \/ (w.fatal /\ DestroyedWhileRunning(w.fetch_workers))]

on_item_no_changed(w, index, text) ==
    LET item_no == strip(text)
    IN IF FullMatchDigits(item_no, 8) /\ item_no # w.last_fetched_item
       THEN [on_fetch(update_button_states(w, index), index)
               EXCEPT !.last_fetched_item = item_no]
       ELSE update_button_states(w, index)

\* A renumbering that writes the first unit's order only
update_color_numbers_first_only(units, start) ==
    [i \in 1..Len(units) |->
        IF i = 1 THEN [units[i] EXCEPT !.order = IntToStr(start), !.order_enabled = TRUE]
        ELSE units[i]]

update_color_numbers(units, start) ==
    [i \in 1..Len(units) |->
        [units[i] EXCEPT !.order = IntToStr(start + i - 1), !.order_enabled = (i = 1)]]

\* on_color_count_changed, new_count: int(text) if text.isdigit() else 0
NewCount(text) == IF IsDecimalText(text) THEN PyInt(text) ELSE 0

\* on_color_count_changed up to its event pump: the handler goes on to resize unless
\* int() raises (a digit that is not a decimal one) or the count is the current one
Resizes(w, text) ==
    /\ ~(IsDigitText(text) /\ ~IsDecimalText(text))
    /\ NewCount(text) # Len(w.cylinder_units)

\* on_color_count_changed from the return of its event pump on, with the counts it
\* computed before the pump: units are appended or popped, the orders are renumbered
\* from 1 and the first unit's signal is connected again
ResizeAfterPump(w, candidates, new_count, current_count) ==
    LET units == w.cylinder_units
        resized == IF new_count > current_count
                   THEN units \o [i \in 1..(new_count - current_count) |->
                                     NewCylinderUnit(candidates)]
                   ELSE SubSeq(units, 1,
                               Len(units) - SetMin({current_count - new_count, Len(units)}))
    IN [w EXCEPT !.cylinder_units = update_color_numbers(resized, 1)]

\* on_color_count_changed(text) when its event pump finds no event to handle
on_color_count_changed(w, candidates, text) ==
    IF Resizes(w, text)
    THEN ResizeAfterPump(w, candidates, NewCount(text), Len(w.cylinder_units))
    ELSE w

\* A change of the first order that rebuilds the units as a resize would
on_first_color_changed_rebuilding(w, text) ==
    [w EXCEPT !.cylinder_units =
                 update_color_numbers([i \in 1..Len(@) |-> NewCylinderUnit(<<>>)],
                                      IF strip(text) = <<"0">> THEN 0 ELSE 1)]

on_first_color_changed(w, text) ==
    [w EXCEPT !.cylinder_units =
                 update_color_numbers(@, IF strip(text) = <<"0">> THEN 0 ELSE 1)]

\* A change of the text of line edit k, by the user or by setText()/clear(): the
\* handlers connected to textChanged run when the text differs from the one shown
setText(w, index, candidates, k, text) ==
    IF w.widgets[k] = text THEN w
    ELSE IF k = ITEM_NO
    THEN on_item_no_changed([w EXCEPT !.widgets[k] = text], index, text)
    ELSE IF k = COLOR_COUNT
    THEN on_color_count_changed([w EXCEPT !.widgets[k] = text], candidates, text)
    ELSE [w EXCEPT !.widgets[k] = text]

\* fill_form(data): setText on every line edit, in the order of the form, from the
\* i-th on
RECURSIVE fill_form_from(_, _, _, _, _)
fill_form_from(w, index, candidates, data, i) ==
    IF i > Len(FieldOrder) THEN w
    ELSE fill_form_from(setText(w, index, candidates, FieldOrder[i],
                                DictGetOr(data, FieldOrder[i], <<>>)),
                        index, candidates, data, i + 1)

fill_form(w, index, candidates, data) == fill_form_from(w, index, candidates, data, 1)

\* on_clear(keep_item): clear() on every line edit but, with keep_item, the item
\* number, from the i-th on
RECURSIVE on_clear_from(_, _, _, _, _)
on_clear_from(w, index, candidates, keep_item, i) ==
    IF i > Len(FieldOrder) THEN w
    ELSE IF keep_item /\ FieldOrder[i] = ITEM_NO
    THEN on_clear_from(w, index, candidates, keep_item, i + 1)
    ELSE on_clear_from(setText(w, index, candidates, FieldOrder[i], <<>>),
                       index, candidates, keep_item, i + 1)

on_clear(w, index, candidates, keep_item) ==
    IF keep_item THEN on_clear_from(w, index, candidates, keep_item, 1)
    ELSE [on_clear_from(w, index, candidates, keep_item, 1)
            EXCEPT !.last_fetched_item = <<>>]

\* _handle_fetch_result, its first statement (self._fetch_worker = None) when the
\* result of worker result is handled: the held worker loses its reference
ForgetWorker(w, result) ==
    [w EXCEPT !.fetch_workers = Release(@),
              !.aborted = \/ @
                          \/ (w.fatal /\ DestroyedWhileRunning(w.fetch_workers))
                          \/ (w.fatal /\ result.held /\ result.phase # "finished")]

\* (mutant) unit idx takes the record's cylinder of order idx, whatever the start
ShowCylinders_unshifted(w, rec) ==
    LET start == IF DictGetOr(rec, CylinderColumn(0), <<>>) # <<>> THEN 0 ELSE 1
    IN [w EXCEPT !.cylinder_units =
          [idx \in 1..Len(w.cylinder_units) |->
              [update_color_numbers(w.cylinder_units, start)[idx]
                 EXCEPT !.cylinder = DictGetOr(rec, CylinderColumn(idx - 1), <<>>)]]]

\* _handle_fetch_result, the branch of a found record after fill_form: the orders
\* are renumbered from the record's start and each unit shows the record's cylinder
\* code of its order
ShowCylinders(w, rec) ==
    LET start == IF DictGetOr(rec, CylinderColumn(0), <<>>) # <<>> THEN 0 ELSE 1
    IN [w EXCEPT !.cylinder_units =
          [idx \in 1..Len(w.cylinder_units) |->
              [update_color_numbers(w.cylinder_units, start)[idx]
                 EXCEPT !.cylinder = DictGetOr(rec, CylinderColumn(idx - 1 + start), <<>>)]]]

\* _handle_fetch_result(data) for the result a worker emitted (no "error" key: the
\* worker's find raises nothing), when no event pump on the way finds an event
_handle_fetch_result(w, index, candidates, result) ==
    CHOOSE after \in
      { IF forgot.aborted THEN forgot
        ELSE IF ~result.record.some THEN on_clear(forgot, index, candidates, TRUE)
        ELSE CHOOSE shown \in
               { ShowCylinders(filled, result.record.val)
                 : filled \in {fill_form(forgot, index, candidates,
                                         [k \in DOMAIN w.widgets |->
                                             DictGetOr(result.record.val, k, <<>>)])} }
               : TRUE
        : forgot \in {ForgetWorker(w, result)} } : TRUE

\* _collect_cylinder_form_data: the columns of the orders 0..MAX_ORDER, each with the
\* cylinder code of the last unit that shows the order, "" when no unit does
_collect_cylinder_form_data(units) ==
    [o \in 1..(MAX_ORDER + 1) |->
        LET shown == {i \in 1..Len(units) :
                        /\ IsDigitText(strip(units[i].order))
                        /\ PyInt(strip(units[i].order)) = o - 1}
        IN <<CylinderColumn(o - 1),
             IF shown = {} THEN <<>> ELSE strip(units[SetMax(shown)].cylinder)>>]

\* collect_form_data: the items of the form dict in insertion order
collect_form_data(w) ==
    [i \in 1..Len(FieldOrder) |-> <<FieldOrder[i], strip(w.widgets[FieldOrder[i]])>>]
      \o _collect_cylinder_form_data(w.cylinder_units)

\* on_save, the patch of the cached table: the first row whose key cell reads as the
\* saved key is replaced by the saved values, or a row is appended
SavedTable(sheet_data, normalized_data) ==
    LET headers == [i \in 1..Len(sheet_data[1]) |-> normalize_header_name(sheet_data[1][i])]
        row == [i \in 1..Len(headers) |->
                   StrCell(DictGetOr(normalized_data, headers[i], <<>>))]
        item_key == DictGetOr(normalized_data, ITEM_NO, <<>>)
    IN IF ITEM_NO \notin Range(headers) THEN sheet_data
       ELSE LET idx == ListIndex(headers, ITEM_NO)
                hits == {i \in 2..Len(sheet_data) :
                           (IF sheet_data[i][idx] # None THEN PyStr(sheet_data[i][idx])
                            ELSE <<>>) = item_key}
            IN IF hits = {} THEN Append(sheet_data, row)
               ELSE [sheet_data EXCEPT ![SetMin(hits)] = row]

\* (mutant) the index is not touched by a save
SavedIndex_untouched(index, sheet_data, normalized_data) == index

\* on_save, the patch of the record index
SavedIndex(index, sheet_data, normalized_data) ==
    LET headers == [i \in 1..Len(sheet_data[1]) |-> normalize_header_name(sheet_data[1][i])]
        record_dict == [h \in Range(headers) \ {<<>>} |->
                           DictGetOr(normalized_data, h, <<>>)]
        item_key == DictGetOr(normalized_data, ITEM_NO, <<>>)
        sheet_index == DictGetOr(index, excel_sheet, EmptyDict)
        column_dict == DictGetOr(sheet_index, ITEM_NO, EmptyDict)
    IN DictSet(index, excel_sheet,
               DictSet(sheet_index, ITEM_NO,
                       IF item_key # <<>> THEN DictSet(column_dict, item_key, record_dict)
                       ELSE column_dict))

\* (mutant) the caches are patched whether or not the upsert raised
CachesAfterUpsert_regardless(done, preloaded, index, normalized_data) ==
    IF excel_sheet \in DOMAIN preloaded /\ preloaded[excel_sheet] # <<>>
    THEN [preloaded_data |-> [preloaded EXCEPT ![excel_sheet] =
                                 SavedTable(@, normalized_data)],
          record_index |-> SavedIndex(index, preloaded[excel_sheet], normalized_data),
          cached |-> TRUE]
    ELSE [preloaded_data |-> preloaded, record_index |-> index, cached |-> FALSE]

\* on_save, the caches after the call of upsert_record_to_xlsm: patched when the call
\* returned and the sheet's table is loaded, untouched when it raised
CachesAfterUpsert(done, preloaded, index, normalized_data) ==
    IF done.raised = "" /\ excel_sheet \in DOMAIN preloaded /\ preloaded[excel_sheet] # <<>>
    THEN [preloaded_data |-> [preloaded EXCEPT ![excel_sheet] =
                                 SavedTable(@, normalized_data)],
          record_index |-> SavedIndex(index, preloaded[excel_sheet], normalized_data),
          cached |-> TRUE]
    ELSE [preloaded_data |-> preloaded, record_index |-> index, cached |-> FALSE]

\* (mutant) a failed save empties the form but the item number
WindowAfterUpsert_clearing(done, w, index) ==
    IF done.raised = "" THEN update_button_states(w, index)
    ELSE [w EXCEPT !.widgets = [k \in DOMAIN @ |-> IF k = ITEM_NO THEN @[k] ELSE <<>>],
                   !.cylinder_units = <<>>]

\* (mutant) on_save leaves the button as it was
WindowAfterUpsert_stale(done, w, index) == w

\* on_save, the window after the call of upsert_record_to_xlsm: the button follows the
\* patched index when the call returned; a message box and nothing else when it raised
WindowAfterUpsert(done, w, index) ==
    IF done.raised = "" THEN update_button_states(w, index) ELSE w

\* on_save from the return of upsert_record_to_xlsm on: what the handler leaves (the
\* workbook, the caches, the window) and the record of the call
AfterUpsert(done, w, preloaded, index, normalized_data, save_mode) ==
    CHOOSE result \in
      { [wb |-> done.wb,
         preloaded_data |-> caches.preloaded_data,
         record_index |-> caches.record_index,
         window |-> WindowAfterUpsert(done, w, caches.record_index),
         call |-> [outcome |-> IF done.raised = "" THEN "saved" ELSE "failed",
                   mode |-> save_mode, data |-> normalized_data,
                   raised |-> done.raised, excel |-> done.excel,
                   excel_row |-> done.excel_row, verified |-> done.verified,
                   fallback |-> done.fallback, row |-> done.row,
                   cached |-> caches.cached]]
        : caches \in {CachesAfterUpsert(done, preloaded, index, normalized_data)} } : TRUE

on_save(w, wb, preloaded, index, env) ==
    CHOOSE result \in
      { IF DictGetOr(normalized_data, ITEM_NO, <<>>) = <<>>
        THEN [wb |-> wb, preloaded_data |-> preloaded, record_index |-> index,
              window |-> w, call |-> [outcome |-> "rejected"]]
        ELSE CHOOSE after \in
               { AfterUpsert(done, w, preloaded, index, normalized_data,
                             w.save_button.text)
                 : done \in {upsert_record_to_xlsm(wb, collect_form_data(w), excel_sheet,
                                                   w.save_button.text, env)} } : TRUE
        : normalized_data \in {normalize_form_keys(collect_form_data(w))} } : TRUE

----------------------------------------------------------------------------
(* Spec: the events of the window *)

CYLINDER_DATA == <<<<StrCell(ITEM_NO_ORDER)>>, <<StrCell(CYL_CODE)>>>>

WindowHeader ==
    <<StrCell(ITEM_NO), StrCell(ITEM_NAME), StrCell(COLOR_COUNT),
      StrCell(CylinderColumn(1))>>
WindowRows ==
    { <<StrCell(ITEM_A), StrCell(TEXT_A), IntCell(1), StrCell(CYL_CODE)>>,
      <<IntCell(ITEM_A_NUMBER), None, None, None>>,
      <<StrCell(ITEM_B), StrCell(TEXT_B), None, None>> }
WindowSheets ==
    { <<WindowHeader>> \o rows : rows \in SeqsUpTo(WindowRows, MaxWindowRows) }
      \cup { <<<<StrCell(ITEM_NAME), StrCell(COLOR_COUNT)>>>> }
WindowBooks ==
    { [sheet \in {ORDER_SHEET, CYLINDER_SHEET} |->
          IF sheet = ORDER_SHEET THEN ws ELSE CYLINDER_DATA] : ws \in WindowSheets }
      \cup { [sheet \in {CYLINDER_SHEET} |-> CYLINDER_DATA],
             [sheet \in {ORDER_SHEET} |-> <<WindowHeader>>] }

\* The texts the user enters
ItemTexts == {<<>>, ITEM_A, ITEM_B \o <<WS>>}
NameTexts == {TEXT_A, LEADING_ZERO_TEXT}
CountTexts == {<<>>, <<"1">>}
CylinderTexts == {<<>>, CYL_CODE}

Window ==
    [widgets |-> widgets, save_button |-> save_button, cylinder_units |-> cylinder_units,
     last_fetched_item |-> last_fetched_item, fetch_workers |-> fetch_workers,
     aborted |-> FALSE, fatal |-> TRUE]

\* A QThread object that loses its last reference before its thread has ended is
\* destroyed at once (fatal) or only after the thread has ended, as the timing of the
\* thread and of the release of the object has it
Windows == {[Window EXCEPT !.fatal = fatal] : fatal \in BOOLEAN}

SetWindow(w) ==
    /\ widgets' = w.widgets
    /\ save_button' = w.save_button
    /\ cylinder_units' = w.cylinder_units
    /\ last_fetched_item' = w.last_fetched_item
    /\ fetch_workers' = w.fetch_workers
    /\ pc' = IF w.aborted THEN "aborted" ELSE pc

Candidates == _collect_cylinder_candidates(preloaded_data)

\* The window as MainWindow.__init__ leaves it after a load that succeeded
Init ==
    /\ book \in WindowBooks
    /\ preloaded_data = extract_initial_data(book)
    /\ record_index = [sheet \in DOMAIN extract_initial_data(book) |->
                          build_record_index(extract_initial_data(book)[sheet],
                                             SEARCH_COLUMNS)]
    /\ widgets = [k \in Range(FieldOrder) |-> <<>>]
    /\ save_button = [text |-> NEW_MODE, enabled |-> FALSE]
    /\ cylinder_units = <<>>
    /\ last_fetched_item = <<>>
    /\ fetch_workers = <<>>
    /\ last_find = NoFind
    /\ last_save = NoSave
    /\ n_saves = 0
    /\ call_stack = <<>>
    /\ fetch_log = NoFetches
    /\ pc = "ready"

\* The user changes the text of a line edit of the form, one of fields
EditOf(fields) ==
    /\ pc = "ready"
    /\ \E k \in fields :
         \E text \in (IF k = ITEM_NO THEN ItemTexts
                      ELSE IF k = ITEM_NAME THEN NameTexts ELSE CountTexts) :
            /\ text # widgets[k]
            /\ k = ITEM_NO => Len(fetch_workers) < MaxWorkers
            /\ \E win \in Windows :
                  SetWindow(setText(win, record_index, Candidates, k, text))
    /\ UNCHANGED <<call_stack, fetch_log>>
    /\ UNCHANGED <<book, preloaded_data, record_index, last_find, last_save, n_saves>>

EditField == EditOf(Range(FieldOrder))

\* The user changes the cylinder code of a unit
EditCylinder ==
    /\ pc = "ready"
    /\ \E i \in 1..Len(cylinder_units), text \in CylinderTexts :
          /\ text # cylinder_units[i].cylinder
          /\ cylinder_units' = [cylinder_units EXCEPT ![i].cylinder = text]
    /\ UNCHANGED <<call_stack, fetch_log>>
    /\ UNCHANGED <<book, preloaded_data, record_index, widgets, save_button,
                   last_fetched_item, fetch_workers, last_find, last_save, n_saves, pc>>

\* The user picks the other start in the first unit's order combo
FirstColorChanged ==
    /\ pc = "ready"
    /\ cylinder_units # <<>>
    /\ \E text \in {<<"0">>, <<"1">>} :
          /\ text # cylinder_units[1].order
          /\ SetWindow(on_first_color_changed(Window, text))
    /\ UNCHANGED <<call_stack, fetch_log>>
    /\ UNCHANGED <<book, preloaded_data, record_index, last_find, last_save, n_saves>>

\* The results that wait for the interactive thread, in the order of their emission,
\* then the workers that have not emitted, with worker i having emitted record
Emitted(workers, i, record) ==
    SelectSeq(workers, LAMBDA x : x.phase # "started")
      \o <<[workers[i] EXCEPT !.phase = "emitted", !.record = record]>>
      \o SelectSeq([k \in 1..Len(workers) |->
                       IF k = i THEN [workers[k] EXCEPT !.phase = "emitted"]
                       ELSE workers[k]],
                   LAMBDA x : x.phase = "started")

\* FetchWorker.run on its own thread: the lookup in the sheet's index as it is now,
\* and the emission of the result
FetchRun ==
    /\ pc = "ready"
    /\ \E i \in 1..Len(fetch_workers) :
          /\ fetch_workers[i].phase = "started"
          /\ fetch_workers' =
               Emitted(fetch_workers, i,
                       find_record_by_column(DictGetOr(record_index, excel_sheet, EmptyDict),
                                             ITEM_NO, fetch_workers[i].item_no).record)
    /\ UNCHANGED <<call_stack, fetch_log>>
    /\ UNCHANGED <<book, preloaded_data, record_index, widgets, save_button,
                   cylinder_units, last_fetched_item, last_find, last_save, n_saves, pc>>

\* The thread of a worker that has emitted its result returns from run() and ends
FetchFinish ==
    /\ pc = "ready"
    /\ \E i \in 1..Len(fetch_workers) :
          /\ fetch_workers[i].phase = "emitted"
          /\ fetch_workers' = [fetch_workers EXCEPT ![i].phase = "finished"]
    /\ UNCHANGED <<call_stack, fetch_log>>
    /\ UNCHANGED <<book, preloaded_data, record_index, widgets, save_button,
                   cylinder_units, last_fetched_item, last_find, last_save, n_saves, pc>>

\* The interactive thread handles the oldest emitted result
FetchDeliver ==
    /\ pc = "ready"
    /\ fetch_workers # <<>>
    /\ fetch_workers[1].phase # "started"
    /\ \E win \in Windows :
          SetWindow(_handle_fetch_result([win EXCEPT !.fetch_workers = Tail(@)],
                                         record_index, Candidates, fetch_workers[1]))
    /\ UNCHANGED <<call_stack, fetch_log>>
    /\ UNCHANGED <<book, preloaded_data, record_index, last_find, last_save, n_saves>>

\* The user clicks the save button, when fewer than limit clicks have been made
SaveClick(limit) ==
    /\ pc = "ready"
    /\ save_button.enabled
    /\ n_saves < limit
    /\ \E env \in Envs :
         \E saved \in {on_save(Window, book, preloaded_data, record_index, env)} :
            /\ book' = saved.wb
            /\ preloaded_data' = saved.preloaded_data
            /\ record_index' = saved.record_index
            /\ SetWindow(saved.window)
            /\ last_save' = saved.call
    /\ n_saves' = n_saves + 1
    /\ UNCHANGED <<call_stack, fetch_log>>
    /\ UNCHANGED <<last_find>>

OnSave == SaveClick(MaxWindowSaves)

\* The user clicks the clear button
OnClear ==
    /\ pc = "ready"
    /\ \E win \in Windows : SetWindow(on_clear(win, record_index, Candidates, FALSE))
    /\ UNCHANGED <<call_stack, fetch_log>>
    /\ UNCHANGED <<book, preloaded_data, record_index, last_find, last_save, n_saves>>

Next ==
    \/ EditField
    \/ EditCylinder
    \/ FirstColorChanged
    \/ FetchRun
    \/ FetchFinish
    \/ FetchDeliver
    \/ OnSave
    \/ OnClear

Spec == Init /\ [][Next]_vars

----------------------------------------------------------------------------
(* Claims about on_save (Spec).  A step that changes n_saves is an on_save  *)
(* that called upsert_record_to_xlsm; last_save' records what the call did. *)

SaveStep == n_saves' # n_saves

SheetIndexOf(index) == DictGetOr(DictGetOr(index, excel_sheet, EmptyDict), ITEM_NO, EmptyDict)

\* C5 (as stated): whenever on_save patches the record index and the cached table,
\* the row of the final write, whichever path wrote it, was re-read by
\* _verify_saved_row and every written field was found equal to the request's.
C5_CachedWritesVerified ==
    [][ (SaveStep /\ last_save'.cached) => last_save'.verified ]_vars

C7_FailedSaveKeepsCaches ==
    [][ (SaveStep /\ last_save'.outcome = "failed")
        => /\ record_index' = record_index
           /\ preloaded_data' = preloaded_data ]_vars

\* C7 witness: the privileged path wrote a new row, its verification failed and the
\* fallback was refused the file: the save failed with the document a row longer
\* than the cached table
C7_Witness ==
    /\ pc = "ready" /\ n_saves = 1
    /\ last_save.outcome = "failed" /\ last_save.raised = "PermissionError"
    /\ last_save.excel = "row" /\ last_save.fallback
    /\ excel_sheet \in DOMAIN preloaded_data
    /\ Len(book[excel_sheet]) > Len(preloaded_data[excel_sheet])

----------------------------------------------------------------------------
(* The save mode over runs of key edits, lookups, clears and repeated saves: *)
(* specification SpecMode.  The window starts as in Spec, on fewer books; the *)
(* user edits the item number only, and may click save MaxModeSaves times.    *)

\* The workbooks of SpecMode: those of Spec that hold both sheets
ModeBooks == {wb \in WindowBooks : DOMAIN wb = {ORDER_SHEET, CYLINDER_SHEET}}

InitMode ==
    /\ book \in ModeBooks
    /\ preloaded_data = extract_initial_data(book)
    /\ record_index = [sheet \in DOMAIN extract_initial_data(book) |->
                          build_record_index(extract_initial_data(book)[sheet],
                                             SEARCH_COLUMNS)]
    /\ widgets = [k \in Range(FieldOrder) |-> <<>>]
    /\ save_button = [text |-> NEW_MODE, enabled |-> FALSE]
    /\ cylinder_units = <<>>
    /\ last_fetched_item = <<>>
    /\ fetch_workers = <<>>
    /\ last_find = NoFind
    /\ last_save = NoSave
    /\ n_saves = 0
    /\ call_stack = <<>>
    /\ fetch_log = NoFetches
    /\ pc = "ready"

\* The user changes the item number
EditKey == EditOf({ITEM_NO})

OnSaveAgain == SaveClick(MaxModeSaves)

NextMode ==
    \/ EditKey
    \/ FetchRun
    \/ FetchFinish
    \/ FetchDeliver
    \/ OnSaveAgain
    \/ OnClear

SpecMode == InitMode /\ [][NextMode]_vars

\* C28: in every on_save that calls the upsert, the save mode it passes is
\* overwrite exactly when the trimmed text of the item number field is, as on_save
\* starts, a key of the item number mapping of the configured sheet's index, and is
\* new registration otherwise.
C28_ModeFollowsIndex ==
    [][ (SaveStep /\ last_save'.outcome \in {"saved", "failed"})
        => /\ last_save'.mode \in {NEW_MODE, OVERWRITE_MODE}
           /\ last_save'.mode = OVERWRITE_MODE
                <=> strip(widgets[ITEM_NO]) \in DOMAIN SheetIndexOf(record_index) ]_vars

\* C28 witness: the second save of a run was an overwrite of a row that the first
\* save, a new registration of the same key, had appended to an empty sheet
C28_Witness ==
    /\ pc = "ready" /\ n_saves = 2
    /\ last_save.outcome = "saved" /\ last_save.mode = OVERWRITE_MODE
    /\ ORDER_SHEET \in DOMAIN book /\ Len(book[ORDER_SHEET]) = 2
    /\ last_save.row = 2
    /\ last_save.data[ITEM_NO] = ITEM_B
    /\ widgets[ITEM_NO] = ITEM_B \o <<WS>>
    /\ _normalize_cell_text(book[ORDER_SHEET][2][1]) = ITEM_B

----------------------------------------------------------------------------
(* The form with the event pump of on_color_count_changed: specification    *)
(* SpecForm.  The handler computes new_count and current_count, shows its   *)
(* status label through _set_generation_status(True), which calls           *)
(* QApplication.processEvents(), and only then changes the list of units.   *)
(* The events that the pump finds (user input, results of lookups) are      *)
(* handled inside it; the handler that called it waits in call_stack and    *)
(* goes on when the pump returns.  A message box is taken to be answered    *)
(* before another event is handled.                                         *)

\* Largest number of handlers that wait in an event pump at once
MaxDepth == 2
\* Largest number of lookups started in one behaviour of SpecForm
MaxFetches == 2
\* Largest count the user types into the count field
MaxCount == 2

\* The handler that waits in a pump: the counts on_color_count_changed computed,
\* and what its callers go on to do when it returns: the fields fill_form or on_clear
\* have still to set (texts, from the next-th field of the form on), then the rest of
\* the caller ("edit": a change of one field; "clear": on_clear(); "notfound" and
\* "found": _handle_fetch_result without and with a record rec)
Frame(new_count, current_count, texts, next, kind, rec) ==
    [new_count |-> new_count, current_count |-> current_count, texts |-> texts,
     next |-> next, kind |-> kind, rec |-> rec]

\* setText(texts[k]) on the fields k of texts, in the order of the form from the
\* i-th on, up to the end or to the event pump of on_color_count_changed
RECURSIVE set_fields_from(_, _, _, _, _)
set_fields_from(w, index, candidates, texts, i) ==
    IF i > Len(FieldOrder)
    THEN [w |-> w, waits |-> FALSE, next |-> i, new_count |-> 0, current_count |-> 0]
    ELSE IF FieldOrder[i] \notin DOMAIN texts
    THEN set_fields_from(w, index, candidates, texts, i + 1)
    ELSE IF /\ FieldOrder[i] = COLOR_COUNT
            /\ w.widgets[COLOR_COUNT] # texts[COLOR_COUNT]
            /\ Resizes(w, texts[COLOR_COUNT])
    THEN [w |-> [w EXCEPT !.widgets[COLOR_COUNT] = texts[COLOR_COUNT]],
          waits |-> TRUE, next |-> i + 1,
          new_count |-> NewCount(texts[COLOR_COUNT]),
          current_count |-> Len(w.cylinder_units)]
    ELSE set_fields_from(setText(w, index, candidates, FieldOrder[i], texts[FieldOrder[i]]),
                         index, candidates, texts, i + 1)

\* What a handler does after its last setText
Finish(w, kind, rec) ==
    CASE kind = "clear" -> [w EXCEPT !.last_fetched_item = <<>>]
      [] kind = "found" -> ShowCylinders(w, rec)
      [] OTHER -> w

\* A handler from its i-th field on: the window it leaves, and the frame in which it
\* waits when it has reached an event pump
RunHandler(w, index, candidates, texts, i, kind, rec) ==
    CHOOSE run \in
      { IF step.waits
        THEN [w |-> step.w,
              frame |-> Some(Frame(step.new_count, step.current_count, texts, step.next,
                                   kind, rec))]
        ELSE [w |-> Finish(step.w, kind, rec), frame |-> Nothing]
        : step \in {set_fields_from(w, index, candidates, texts, i)} } : TRUE

\* The order sheet of the form: the cylinder columns of the orders 0, 1 and 2
FormHeader ==
    <<StrCell(ITEM_NO), StrCell(ITEM_NAME), StrCell(COLOR_COUNT),
      StrCell(CylinderColumn(0)), StrCell(CylinderColumn(1)), StrCell(CylinderColumn(2))>>

CYL_CODE_2 == <<"9", "0", "0", "0", "0", "0", "0", "0", "2">>

\* Item A has two colors and starts at order 0, item B has one and starts at order 1
FormSheet ==
    << FormHeader,
       <<StrCell(ITEM_A), StrCell(TEXT_A), IntCell(2), StrCell(CYL_CODE), StrCell(CYL_CODE_2),
         None>>,
       <<StrCell(ITEM_B), StrCell(TEXT_B), IntCell(1), None, StrCell(CYL_CODE_2), None>> >>

\* The document: the order sheet and the sheet of the cylinder candidates
FormBook ==
    [sheet \in {ORDER_SHEET, CYLINDER_SHEET} |->
        IF sheet = ORDER_SHEET THEN FormSheet ELSE CYLINDER_DATA]

ITEM_C == <<"1", "0", "0", "0", "0", "0", "0", "3">>

\* The texts the user enters
FormItemTexts == {ITEM_A, ITEM_C}
FormCountTexts == {<<>>} \cup {IntToStr(n) : n \in 1..MaxCount}

InitForm ==
    /\ book = FormBook
    /\ preloaded_data = extract_initial_data(book)
    /\ record_index = [sheet \in DOMAIN extract_initial_data(book) |->
                          build_record_index(extract_initial_data(book)[sheet],
                                             SEARCH_COLUMNS)]
    /\ widgets = [k \in Range(FieldOrder) |-> <<>>]
    /\ save_button = [text |-> NEW_MODE, enabled |-> FALSE]
    /\ cylinder_units = <<>>
    /\ last_fetched_item = <<>>
    /\ fetch_workers = <<>>
    /\ last_find = NoFind
    /\ last_save = NoSave
    /\ n_saves = 0
    /\ call_stack = <<>>
    /\ fetch_log = NoFetches
    /\ pc = "ready"

\* The handler that an event started has run to its end, or waits in a pump; it took
\* taken results off the queue of the interactive thread and applied delivered of them
Enter(run, taken, delivered) ==
    /\ SetWindow(run.w)
    /\ call_stack' = IF run.frame.some THEN <<run.frame.val>> \o call_stack
                     ELSE call_stack
    /\ Len(call_stack') <= MaxDepth
    /\ fetch_log' = [started |-> fetch_log.started + taken
                                    + Len(run.w.fetch_workers) - Len(fetch_workers),
                     delivered |-> fetch_log.delivered + delivered]
    /\ fetch_log'.started <= MaxFetches

\* The user changes the text of the item number or of the count (at any time, also
\* while a handler waits in its pump)
UserEdits ==
    /\ pc = "ready"
    /\ \E k \in {ITEM_NO, COLOR_COUNT} :
         \E text \in (IF k = ITEM_NO THEN FormItemTexts ELSE FormCountTexts) :
            /\ text # widgets[k]
            /\ \E win \in Windows :
                  Enter(RunHandler(win, record_index, Candidates, [x \in {k} |-> text], 1,
                                   "edit", EmptyDict), 0, 0)
    /\ UNCHANGED <<book, preloaded_data, record_index, last_find, last_save, n_saves>>

\* The user clicks the clear button
UserClears ==
    /\ pc = "ready"
    /\ \E win \in Windows :
          Enter(RunHandler(win, record_index, Candidates,
                           [k \in Range(FieldOrder) |-> <<>>], 1, "clear", EmptyDict), 0, 0)
    /\ UNCHANGED <<book, preloaded_data, record_index, last_find, last_save, n_saves>>

\* The interactive thread handles the oldest emitted result: _handle_fetch_result
ResultDelivered ==
    /\ pc = "ready"
    /\ fetch_workers # <<>>
    /\ fetch_workers[1].phase # "started"
    /\ \E forgot \in {ForgetWorker([win EXCEPT !.fetch_workers = Tail(@)],
                                   fetch_workers[1]) : win \in Windows} :
          IF forgot.aborted
          THEN Enter([w |-> forgot, frame |-> Nothing], 1, 0)
          ELSE IF fetch_workers[1].record.some
          THEN Enter(RunHandler(forgot, record_index, Candidates,
                                [k \in Range(FieldOrder) |->
                                    DictGetOr(fetch_workers[1].record.val, k, <<>>)],
                                1, "found", fetch_workers[1].record.val), 1, 1)
          ELSE Enter(RunHandler(forgot, record_index, Candidates,
                                [k \in Range(FieldOrder) \ {ITEM_NO} |-> <<>>],
                                1, "notfound", EmptyDict), 1, 1)
    /\ UNCHANGED <<book, preloaded_data, record_index, last_find, last_save, n_saves>>

\* The event pump of the innermost waiting on_color_count_changed returns: the
\* handler resizes with the counts it had computed, and its callers go on
PumpReturns ==
    /\ pc = "ready"
    /\ call_stack # <<>>
    /\ \E run \in
         { RunHandler(ResizeAfterPump(win, Candidates, Head(call_stack).new_count,
                                      Head(call_stack).current_count),
                      record_index, Candidates, Head(call_stack).texts,
                      Head(call_stack).next, Head(call_stack).kind, Head(call_stack).rec)
           : win \in Windows } :
          /\ SetWindow(run.w)
          /\ call_stack' = IF run.frame.some THEN <<run.frame.val>> \o Tail(call_stack)
                           ELSE Tail(call_stack)
          /\ fetch_log' = [fetch_log EXCEPT !.started =
                                           @ + Len(run.w.fetch_workers) - Len(fetch_workers)]
          /\ fetch_log'.started <= MaxFetches
    /\ UNCHANGED <<book, preloaded_data, record_index, last_find, last_save, n_saves>>

NextForm ==
    \/ UserEdits
    \/ FirstColorChanged
    \/ UserClears
    \/ FetchRun
    \/ FetchFinish
    \/ ResultDelivered
    \/ PumpReturns

SpecForm == InitForm /\ [][NextForm]_vars

\* C12: when a resize that on_color_count_changed began for the count text t
\* completes, the number of cylinder units is the count N it parsed from t
C12_ResizeReachesCount ==
    [][ PumpReturns => Len(cylinder_units') = Head(call_stack).new_count ]_vars

\* C13: a resize that a change of the count field began keeps every surviving
\* unit as it was, the first unit's chosen start included, and the units it appends
\* are empty and carry the orders start + index for the start chosen before
C13_ResizePreservesSlots ==
    [][ (PumpReturns /\ Head(call_stack).kind = "edit") =>
          /\ \A i \in 1..SetMin({Len(cylinder_units), Len(cylinder_units')}) :
                cylinder_units'[i] = cylinder_units[i]
          /\ cylinder_units # <<>> =>
               \A i \in (Len(cylinder_units) + 1)..Len(cylinder_units') :
                  /\ cylinder_units'[i].cylinder = <<>>
                  /\ cylinder_units'[i].color = <<>>
                  /\ cylinder_units'[i].width = <<>>
                  /\ cylinder_units'[i].order
                       = IntToStr(PyInt(cylinder_units[1].order) + i - 1) ]_vars

\* C14: whenever no handler is running and there are cylinder units, the first
\* unit's order is 0 or 1, the i-th unit's order is the first one's plus its index,
\* and the first unit's order combo is the only one enabled
C14_NumberingInvariant ==
    (pc = "ready" /\ call_stack = <<>> /\ cylinder_units # <<>>) =>
        /\ cylinder_units[1].order \in {<<"0">>, <<"1">>}
        /\ \A i \in 1..Len(cylinder_units) :
              /\ cylinder_units[i].order
                   = IntToStr(PyInt(cylinder_units[1].order) + i - 1)
              /\ cylinder_units[i].order_enabled = (i = 1)

\* C14, its case: after a lookup was delivered and a handler had waited in a pump,
\* no handler runs and several units are numbered from 0
C14_Witness ==
    /\ pc = "ready"
    /\ call_stack = <<>>
    /\ Len(cylinder_units) >= 2
    /\ cylinder_units[1].order = <<"0">>
    /\ fetch_log.delivered >= 1

\* C15: when the user picks the start s in the first unit's order combo, every unit's
\* order becomes s + index, the number of units and each unit's cylinder code, label
\* and width stay as they were, and no handler is left waiting or started again
C15_FirstColorRenumbersOnly ==
    [][ FirstColorChanged =>
          /\ Len(cylinder_units') = Len(cylinder_units)
          /\ cylinder_units'[1].order \in {<<"0">>, <<"1">>} \ {cylinder_units[1].order}
          /\ \A i \in 1..Len(cylinder_units) :
                /\ cylinder_units'[i].order
                     = IntToStr(PyInt(cylinder_units'[1].order) + i - 1)
                /\ cylinder_units'[i].cylinder = cylinder_units[i].cylinder
                /\ cylinder_units'[i].color = cylinder_units[i].color
                /\ cylinder_units'[i].width = cylinder_units[i].width
          /\ call_stack' = call_stack
          /\ widgets' = widgets ]_vars

\* C15, its case: with no lookup ever started, several units with a cylinder code are
\* numbered from 0, which only a pick in the first unit's combo brings about
C15_Witness ==
    /\ pc = "ready"
    /\ fetch_log.started = 0
    /\ Len(cylinder_units) >= 2
    /\ cylinder_units[1].order = <<"0">>
    /\ cylinder_units[2].order = <<"1">>
    /\ cylinder_units[2].cylinder # <<>>

----------------------------------------------------------------------------
(* SpecForm with its scheduling: a started thread runs and ends, the event  *)
(* loop hands every emitted result to _handle_fetch_result, and an event    *)
(* pump returns.                                                            *)

FairForm ==
    /\ WF_vars(FetchRun)
    /\ WF_vars(FetchFinish)
    /\ WF_vars(ResultDelivered)
    /\ WF_vars(PumpReturns)

SpecFormFair == SpecForm /\ FairForm

\* C16: when a second lookup has been started before the first one delivered, both
\* results are in the end applied by the interactive thread
C16_OverlappingLookupsDeliver ==
    (fetch_log.started = 2 /\ fetch_log.delivered = 0) ~> (fetch_log.delivered = 2)

----------------------------------------------------------------------------
(* The normalization of header names and of form keys, called on a family   *)
(* of arguments: specification SpecNormalize.  last_save holds the last     *)
(* call, its result (once) and the result of the same function on that      *)
(* result (twice).                                                          *)

\* Largest number of items of a form dict given to normalize_form_keys
MaxFormKeys == 2

NormalizeValues ==
    { None, StrCell(<<>>), StrCell(<<WS>>), StrCell(ITEM_NO), StrCell(<<WS, WS, "ItemNo">>),
      StrCell(<<"ItemNo", WS>>), StrCell(<<WS, "Item", WS, "No", WS, WS>>),
      IntCell(ITEM_A_NUMBER), FloatCell(4, 0), FloatCell(4, 5) }

NormalizeKeys ==
    { <<>>, <<WS>>, ITEM_NO, <<WS, "ItemNo">>, <<"ItemNo", WS, WS>>, ITEM_NAME,
      <<WS, "ItemName", WS>>, <<"Item", WS, "Name">> }

\* Form dicts: up to MaxFormKeys items whose keys differ
NormalizeData ==
    { data \in SeqsUpTo(NormalizeKeys \X {TEXT_A, TEXT_B}, MaxFormKeys) :
        \A i, j \in 1..Len(data) : i # j => data[i][1] # data[j][1] }

InitNormalize ==
    /\ book = <<>>
    /\ preloaded_data = <<>>
    /\ record_index = <<>>
    /\ pc = "normalize"
    /\ IdleWindow

NormalizeHeader ==
    /\ pc = "normalize"
    /\ \E value \in NormalizeValues :
          last_save' = [outcome |-> "normalized", call |-> "normalize_header_name",
                        arg |-> value,
                        once |-> normalize_header_name(value),
                        twice |-> normalize_header_name(StrCell(normalize_header_name(value)))]
    /\ UNCHANGED <<book, preloaded_data, record_index, widgets, save_button, cylinder_units,
                   last_fetched_item, fetch_workers, last_find, n_saves, call_stack,
                   fetch_log, pc>>

NormalizeForm ==
    /\ pc = "normalize"
    /\ \E data \in NormalizeData :
          last_save' = [outcome |-> "normalized", call |-> "normalize_form_keys",
                        arg |-> data,
                        once |-> normalize_form_keys(data),
                        twice |-> normalize_form_keys(normalized_items(data, Len(data)))]
    /\ UNCHANGED <<book, preloaded_data, record_index, widgets, save_button, cylinder_units,
                   last_fetched_item, fetch_workers, last_find, n_saves, call_stack,
                   fetch_log, pc>>

NextNormalize == NormalizeHeader \/ NormalizeForm

SpecNormalize == InitNormalize /\ [][NextNormalize]_vars

\* C18: normalize_header_name returns its own result unchanged, and
\* normalize_form_keys returns for its own result a dict of the same keys and values
C18_NormalizationIdempotent ==
    last_save.outcome = "normalized" =>
        /\ last_save.twice = last_save.once
        /\ last_save.call = "normalize_form_keys" =>
              /\ DOMAIN last_save.once
                   = {normalized_items(last_save.arg, Len(last_save.arg))[i][1] :
                        i \in 1..Len(normalized_items(last_save.arg, Len(last_save.arg)))}
              /\ \A k \in DOMAIN last_save.once : strip(k) = k /\ k # <<>>

\* C18, its case: a form dict with a padded key and a key that collides with it once
\* normalized, so that the normalization changed the dict it was given
C18_Witness ==
    /\ last_save.outcome = "normalized"
    /\ last_save.call = "normalize_form_keys"
    /\ Len(last_save.arg) = 2
    /\ Cardinality(DOMAIN last_save.once) = 1
    /\ last_save.arg[1][1] # strip(last_save.arg[1][1])
    /\ strip(last_save.arg[2][1]) = strip(last_save.arg[1][1])
    /\ strip(last_save.arg[1][1]) # <<>>
    /\ last_save.arg[1][2] # last_save.arg[2][2]
    /\ last_save.once[strip(last_save.arg[1][1])] = last_save.arg[1][2]

----------------------------------------------------------------------------
(* The threads of the program: specification SpecThreads.  The window from  *)
(* its construction on: the startup load on its threading.Thread, the       *)
(* lookups on their QThreads, and the handlers that the event loop of the   *)
(* interactive thread runs.  The cylinder units are left to SpecForm.       *)

InitThreads ==
    /\ book \in WindowBooks
    /\ preloaded_data = <<>>
    /\ record_index = <<>>
    /\ pc = "loading"
    /\ IdleWindow

\* (mutant) a load thread that stores what it extracted in the window itself
LoadRun_applying ==
    /\ pc = "loading"
    /\ preloaded_data' = extract_initial_data(book)
    /\ pc' = "loaded"
    /\ UNCHANGED <<book, record_index, widgets, save_button, cylinder_units,
                   last_fetched_item, fetch_workers, last_find, last_save, n_saves,
                   call_stack, fetch_log>>

\* load() on the thread MainWindow.__init__ started: extract_initial_data(path) reads
\* the document into container["data"], which is extract_initial_data(book) until the
\* interactive thread has taken it
LoadRun ==
    /\ pc = "loading"
    /\ pc' = "loaded"
    /\ UNCHANGED <<book, preloaded_data, record_index, widgets, save_button,
                   cylinder_units, last_fetched_item, fetch_workers, last_find, last_save,
                   n_saves, call_stack, fetch_log>>

\* MainWindow.__init__ on the interactive thread, after thread.join(): the caches are
\* set from container["data"] and the form is built
ApplyStartup ==
    /\ pc = "loaded"
    /\ preloaded_data' = extract_initial_data(book)
    /\ record_index' = [sheet \in DOMAIN extract_initial_data(book) |->
                           build_record_index(extract_initial_data(book)[sheet],
                                              SEARCH_COLUMNS)]
    /\ widgets' = [k \in Range(FieldOrder) |-> <<>>]
    /\ pc' = "ready"
    /\ UNCHANGED <<book, save_button, cylinder_units, last_fetched_item, fetch_workers,
                   last_find, last_save, n_saves, call_stack, fetch_log>>

NextThreads ==
    \/ LoadRun
    \/ ApplyStartup
    \/ EditField
    \/ FetchRun
    \/ FetchFinish
    \/ FetchDeliver
    \/ OnSave
    \/ OnClear

SpecThreads == InitThreads /\ [][NextThreads]_vars

\* The steps that a thread other than the interactive one takes
WorkerStep == LoadRun \/ FetchRun \/ FetchFinish

\* C19: no step of a worker thread changes the record index, the cached tables or the
\* cylinder candidates computed from them
C19_WorkersLeaveCachesAlone ==
    [][ WorkerStep => /\ record_index' = record_index
                      /\ preloaded_data' = preloaded_data
                      /\ Candidates' = Candidates ]_vars

\* C19, its case: the load thread has run and its data has been applied, and a lookup
\* thread has found a record in the index and ended
C19_Witness ==
    /\ pc = "ready"
    /\ ORDER_SHEET \in DOMAIN record_index
    /\ fetch_workers # <<>>
    /\ fetch_workers[1].phase = "finished"
    /\ fetch_workers[1].record.some

\* C20: a save that reaches the document (the privileged write, the verification read
\* or the fallback write of upsert_record_to_xlsm) is a step of a worker thread
C20_SaveRunsOnWorker ==
    [][ (OnSave /\ last_save'.outcome # "rejected") => WorkerStep ]_vars

----------------------------------------------------------------------------
(* The order numbers of the cylinder units over the texts of the color      *)
(* count: specification SpecOrders.  The window starts as in SpecForm; the  *)
(* user edits the color count, picks the start in the first unit and edits  *)
(* cylinder codes.  No event waits when on_color_count_changed pumps.       *)

\* The largest color count the user types
MaxTypedCount == 11

\* The texts of the color count: none, a text that is no number, and counts up to
\* MaxTypedCount
OrderCountTexts ==
    {<<>>, <<"x">>} \cup {IntToStr(n) : n \in {1, 2, MaxTypedCount - 1, MaxTypedCount}}

\* The user changes the text of the color count
CountEdited ==
    /\ pc = "ready"
    /\ \E text \in OrderCountTexts :
          /\ text # widgets[COLOR_COUNT]
          /\ \E win \in Windows :
                SetWindow(setText(win, record_index, Candidates, COLOR_COUNT, text))
    /\ UNCHANGED <<call_stack, fetch_log>>
    /\ UNCHANGED <<book, preloaded_data, record_index, last_find, last_save, n_saves>>

NextOrders ==
    \/ CountEdited
    \/ FirstColorChanged
    \/ EditCylinder

SpecOrders == InitForm /\ [][NextOrders]_vars

\* C29: the order of every cylinder unit is the text of an integer in 0..MAX_ORDER,
\* whatever text the color count holds and whichever start is picked
C29_OrdersWithinRange ==
    \A i \in 1..Len(cylinder_units) :
        /\ IsDecimalText(cylinder_units[i].order)
        /\ PyInt(cylinder_units[i].order) \in 0..MAX_ORDER

----------------------------------------------------------------------------
(* The cylinder units that a delivered record fills: specification          *)
(* SpecShow.  The window starts as in SpecForm, on the sheet whose item A   *)
(* has a cylinder of order 0 and whose item B has none; the user edits the  *)
(* item number and the color count, the lookups run and are delivered, and  *)
(* the user picks the start and edits cylinder codes.  No event waits when  *)
(* a handler pumps.                                                         *)

\* The user changes the item number or the color count
EditKeyOrCount == EditOf({ITEM_NO, COLOR_COUNT})

NextShow ==
    \/ EditKeyOrCount
    \/ FetchRun
    \/ FetchFinish
    \/ FetchDeliver
    \/ FirstColorChanged
    \/ EditCylinder

SpecShow == InitForm /\ [][NextShow]_vars

\* The start a found record gives: 0 when its cylinder column of order 0 holds a
\* text, else 1
StartOf(rec) == IF DictGetOr(rec, CylinderColumn(0), <<>>) # <<>> THEN 0 ELSE 1

\* C30: when the result of a lookup that found a record is handled, every unit
\* shows afterwards the order start + i (i from 0), where start is 0 if the record's
\* cylinder column of order 0 is non-empty and 1 otherwise, and holds as cylinder
\* code the record's value of the cylinder column of that order ("" when the record
\* has no such column).
C30_FoundRecordFillsUnits ==
    [][ (FetchDeliver /\ fetch_workers[1].record.some /\ pc' = "ready")
        => \E rec \in {fetch_workers[1].record.val} :
              \A i \in 1..Len(cylinder_units') :
                 /\ cylinder_units'[i].order = IntToStr(StartOf(rec) + i - 1)
                 /\ cylinder_units'[i].cylinder
                      = DictGetOr(rec, CylinderColumn(StartOf(rec) + i - 1), <<>>) ]_vars

\* C30 witness: the record of item B, which has no cylinder of order 0, has been
\* delivered: its one unit shows order 1 and the record's cylinder of order 1
C30_Witness ==
    /\ pc = "ready" /\ fetch_workers = <<>>
    /\ last_fetched_item = ITEM_B
    /\ widgets[ITEM_NO] = ITEM_B /\ widgets[ITEM_NAME] = TEXT_B
    /\ Len(cylinder_units) = 1
    /\ cylinder_units[1].order = <<"1">>
    /\ cylinder_units[1].cylinder = CYL_CODE_2

----------------------------------------------------------------------------
(* The startup load over a family of cylinder sheets: specification         *)
(* SpecCylinders.  The candidates of the cylinder code are computed from    *)
(* the loaded cylinder sheet when the load is applied.                      *)

\* Header rows of the cylinder sheet: the composite key column under its current or
\* its legacy name, beside an item number column, another column or each other
CylinderHeaders ==
    { <<StrCell(ITEM_NO), StrCell(ITEM_NO_ORDER_COL)>>,
      <<StrCell(ITEM_NAME), StrCell(ITEM_NO_ORDER_COL)>>,
      <<StrCell(ITEM_NAME), StrCell(ITEM_NO_ORDER)>>,
      <<StrCell(ITEM_NO_ORDER), StrCell(ITEM_NO_ORDER_COL)>>,
      <<StrCell(ITEM_NO), StrCell(ITEM_NO_ORDER)>> }

CylinderRows ==
    { <<a, b>> : a \in {None, StrCell(ITEM_A)},
                 b \in {None, StrCell(<<>>), StrCell(CYL_CODE), StrCell(CYL_CODE_2),
                        StrCell(ITEM_A)} }

MaxCylinderRows == 2

CylinderBooks ==
    { [sheet \in {ORDER_SHEET, CYLINDER_SHEET} |->
          IF sheet = ORDER_SHEET THEN <<<<StrCell(ITEM_NO)>>>> ELSE <<h>> \o rows]
      : h \in CylinderHeaders, rows \in SeqsUpTo(CylinderRows, MaxCylinderRows) }

InitCylinders ==
    /\ book \in CylinderBooks
    /\ preloaded_data = <<>>
    /\ record_index = <<>>
    /\ pc = "loading"
    /\ IdleWindow

SpecCylinders == InitCylinders /\ [][NextLoad]_vars

\* The column of the composite key in a sheet of the document: the first column
\* whose header is the current name, else the first whose header is the legacy name
CompositeKeyColumns(ws) ==
    LET named(name) == {c \in 1..max_column(ws) :
                           CellValue(ws, 1, c) # None /\ PyStr(CellValue(ws, 1, c)) = name}
    IN IF named(ITEM_NO_ORDER_COL) # {} THEN {SetMin(named(ITEM_NO_ORDER_COL))}
       ELSE IF named(ITEM_NO_ORDER) # {} THEN {SetMin(named(ITEM_NO_ORDER))}
       ELSE {}

\* The 9-digit texts that the data rows of the sheet hold in the composite key column
DocumentCodes(ws) ==
    UNION { { PyStr(CellValue(ws, r, c)) : r \in {q \in 2..max_row(ws) :
                                            /\ CellValue(ws, q, c) # None
                                            /\ FullMatchDigits(PyStr(CellValue(ws, q, c)), 9)} }
            : c \in CompositeKeyColumns(ws) }

\* C31: once the load is applied, the candidates of the cylinder code are the
\* 9-digit texts of the composite key column (current name, else legacy name) over
\* all data rows of the cylinder sheet of the document, each once.
C31_CandidatesAreDocumentCodes ==
    (pc = "ready" /\ CYLINDER_SHEET \in DOMAIN book) =>
        \E candidates \in {_collect_cylinder_candidates(preloaded_data)} :
           /\ Range(candidates) = DocumentCodes(book[CYLINDER_SHEET])
           /\ \A i, j \in 1..Len(candidates) : candidates[i] = candidates[j] => i = j

\* The anchor columns of a sheet of the document: for the item number and for the
\* composite key (legacy name), the first column whose trimmed header is that name
AnchorColumns(ws) ==
    { SetMin(cols) : cols \in { {c \in 1..max_column(ws) :
                                    /\ CellValue(ws, 1, c) # None
                                    /\ normalize_header_name(CellValue(ws, 1, c)) = name}
                                : name \in {ITEM_NO, ITEM_NO_ORDER} } \ {{}} }

\* The rows below the header that hold a non-empty cell in an anchor column
AnchoredRows(ws) ==
    {r \in 2..max_row(ws) : \E c \in AnchorColumns(ws) : ~IsBlankCell(CellValue(ws, r, c))}

\* C32: a loaded table has the rows 1..lastRow of its sheet and no others, where
\* lastRow is the bottom-most row with a non-empty cell in the item number anchor
\* column or in the composite key anchor column, and row 1 when no anchor column
\* exists or all anchor cells below the header are empty.
C32_LastRowIsDeepestAnchorRow ==
    pc = "ready" =>
        \A sheet \in DOMAIN preloaded_data :
            \E ws \in {book[sheet]} : \E table \in {preloaded_data[sheet]} :
               /\ Len(table) = SetMax({1} \cup AnchoredRows(ws))
               /\ \A r \in 1..Len(table) : \A c \in 1..Len(table[r]) :
                     table[r][c] = CellValue(ws, r, c)

\* C32 witness: a cylinder sheet with both anchor columns whose item number column
\* ends above the composite key column, loaded without its empty last row
C32_Witness ==
    /\ pc = "ready"
    /\ \E ws \in {book[CYLINDER_SHEET]} :
          /\ Cardinality(AnchorColumns(ws)) = 2
          /\ max_row(ws) = 3
          /\ ~IsBlankCell(CellValue(ws, 2, 2)) /\ IsBlankCell(CellValue(ws, 2, 1))
          /\ Len(preloaded_data[CYLINDER_SHEET]) = 2

\* C33: a startup load never ends in a result that lacks one of the two tables it
\* extracts: a table whose name the document does not hold makes the load fail.
C33_MissingTableFailsLoad ==
    pc = "ready" => DOMAIN preloaded_data = {ORDER_SHEET, CYLINDER_SHEET}

\* C34: whenever no handler is running, the number of cylinder units is the count
\* parsed from the text the count field shows, also after events that were handled
\* inside the event pump of a resize.
C34_UnitsMatchCountField ==
    (pc = "ready" /\ call_stack = <<>> /\ COLOR_COUNT \in DOMAIN widgets) =>
        Len(cylinder_units) = NewCount(widgets[COLOR_COUNT])

----------------------------------------------------------------------------
(* Lookups without further input: specification SpecQuiesce.  The user types *)
(* one item number into the fresh form; after that only the lookup threads   *)
(* and the deliveries of their results run.                                  *)

QuiesceHeaders ==
    { <<StrCell(ITEM_NO), StrCell(ITEM_NAME)>>,
      <<StrCell(ITEM_NO), StrCell(ITEM_NO)>> }

QuiesceRows ==
    { <<StrCell(a), StrCell(b)>> : a \in {ITEM_A, ITEM_B}, b \in {ITEM_A, ITEM_B, TEXT_A} }

MaxQuiesceRows == 2

QuiesceBooks ==
    { [sheet \in {ORDER_SHEET, CYLINDER_SHEET} |->
          IF sheet = ORDER_SHEET THEN <<h>> \o rows ELSE CYLINDER_DATA]
      : h \in QuiesceHeaders, rows \in SeqsUpTo(QuiesceRows, MaxQuiesceRows) }

InitQuiesce ==
    /\ book \in QuiesceBooks
    /\ preloaded_data = extract_initial_data(book)
    /\ record_index = [sheet \in DOMAIN extract_initial_data(book) |->
                          build_record_index(extract_initial_data(book)[sheet],
                                             SEARCH_COLUMNS)]
    /\ widgets = [k \in Range(FieldOrder) |-> <<>>]
    /\ save_button = [text |-> NEW_MODE, enabled |-> FALSE]
    /\ cylinder_units = <<>>
    /\ last_fetched_item = <<>>
    /\ fetch_workers = <<>>
    /\ last_find = NoFind
    /\ last_save = NoSave
    /\ n_saves = 0
    /\ call_stack = <<>>
    /\ fetch_log = NoFetches
    /\ pc = "ready"

\* The user's only input: the first text of the item number
FirstKeyTyped ==
    /\ last_fetched_item = <<>>
    /\ EditOf({ITEM_NO})

NextQuiesce ==
    \/ FirstKeyTyped
    \/ FetchRun
    \/ FetchFinish
    \/ FetchDeliver

\* A started thread runs and ends, and the event loop hands every emitted result to
\* _handle_fetch_result
FairQuiesce ==
    /\ WF_vars(FetchRun)
    /\ WF_vars(FetchFinish)
    /\ WF_vars(FetchDeliver)

SpecQuiesce == InitQuiesce /\ [][NextQuiesce]_vars /\ FairQuiesce

\* C35: without further input the lookups come to an end: from some point on no
\* lookup is in flight (or the process has ended)
C35_LookupsQuiesce ==
    <>[](pc = "aborted" \/ fetch_workers = <<>>)

----------------------------------------------------------------------------
(* The caches after a save, against the document and against a rebuild      *)

\* Order sheets with a column that the form does not show (Memo) and with up to two
\* rows, of the same key or of different keys
CacheRows ==
    { <<StrCell(ITEM_A), StrCell(TEXT_A), StrCell(TEXT_B)>>,
      <<StrCell(ITEM_A), StrCell(TEXT_B), None>>,
      <<StrCell(ITEM_B), StrCell(TEXT_B), None>> }

MaxCacheRows == 2

CacheBooks ==
    { [sheet \in {ORDER_SHEET, CYLINDER_SHEET} |->
          IF sheet = ORDER_SHEET
          THEN <<<<StrCell(ITEM_NO), StrCell(ITEM_NAME), StrCell(MEMO)>>>> \o rows
          ELSE CYLINDER_DATA]
      : rows \in SeqsUpTo(CacheRows, MaxCacheRows) }

InitCaches ==
    /\ book \in CacheBooks
    /\ preloaded_data = extract_initial_data(book)
    /\ record_index = [sheet \in DOMAIN extract_initial_data(book) |->
                          build_record_index(extract_initial_data(book)[sheet],
                                             SEARCH_COLUMNS)]
    /\ widgets = [k \in Range(FieldOrder) |-> <<>>]
    /\ save_button = [text |-> NEW_MODE, enabled |-> FALSE]
    /\ cylinder_units = <<>>
    /\ last_fetched_item = <<>>
    /\ fetch_workers = <<>>
    /\ last_find = NoFind
    /\ last_save = NoSave
    /\ n_saves = 0
    /\ call_stack = <<>>
    /\ fetch_log = NoFetches
    /\ pc = "ready"

NextCaches ==
    \/ EditKey
    \/ FetchRun
    \/ FetchFinish
    \/ FetchDeliver
    \/ OnSaveAgain

SpecCaches == InitCaches /\ [][NextCaches]_vars

\* str(cell), "" for None: the text a Record holds for a cell
RenderedCell(v) == IF v = None THEN <<>> ELSE PyStr(v)

\* C36: after an on_save whose upsert returned and that patched the caches, the
\* Record of the saved key holds, under every named header column of the sheet, the
\* text of the cell the document has in the written row, whether or not the form
\* names the column.
C36_RecordMatchesWrittenRow ==
    [][ (SaveStep /\ last_save'.outcome = "saved" /\ last_save'.cached)
        => \E ws \in {book'[excel_sheet]} :
           \E rec \in {SheetIndexOf(record_index')[last_save'.data[ITEM_NO]]} :
              \A c \in 1..max_column(ws) :
                 (ws[1][c] # None /\ normalize_header_name(ws[1][c]) # <<>>)
                 => /\ normalize_header_name(ws[1][c]) \in DOMAIN rec
                    /\ rec[normalize_header_name(ws[1][c])]
                         = RenderedCell(CellValue(ws, last_save'.row, c)) ]_vars

\* C37: whatever saves have been made, the index of the order sheet is the one
\* build_record_index gives for the cached table as the saves have patched it.
C37_IndexEqualsRebuild ==
    (pc = "ready" /\ excel_sheet \in DOMAIN preloaded_data) =>
        record_index[excel_sheet]
            = build_record_index(preloaded_data[excel_sheet], SEARCH_COLUMNS)

----------------------------------------------------------------------------
(* Further claims about upsert_record_to_xlsm (SpecUpsert)                  *)

\* C38: a call of upsert_record_to_xlsm that raises leaves every cell of the
\* document as it was before the call.
C38_FailedUpsertKeepsDocument ==
    [][ (n_saves' # n_saves /\ last_save'.outcome = "failed") => book' = book ]_vars

\* The rows of a sheet that hold a cell that is not empty
PopulatedRows(ws) ==
    {r \in 1..max_row(ws) : \E c \in 1..Len(ws[r]) : ~IsBlankCell(ws[r][c])}

\* C39: a new registration that returns has written a row that held no populated
\* cell before the call, and the document has one populated row more than before.
C39_NewRegistrationFillsEmptyRow ==
    [][ (n_saves' # n_saves /\ last_save'.outcome = "saved" /\ last_save'.mode = NEW_MODE)
        => /\ last_save'.row \notin PopulatedRows(book[ORDER_SHEET])
           /\ Cardinality(PopulatedRows(book'[ORDER_SHEET]))
                = Cardinality(PopulatedRows(book[ORDER_SHEET])) + 1 ]_vars

----------------------------------------------------------------------------
(* The cylinder units through a save and a lookup: specification SpecRound  *)

NextRound ==
    \/ EditKeyOrCount
    \/ FirstColorChanged
    \/ EditCylinder
    \/ FetchRun
    \/ FetchFinish
    \/ FetchDeliver
    \/ OnSave
    \/ OnClear

SpecRound == InitForm /\ [][NextRound]_vars

\* The cylinder units the form shows when, with no lookup in flight, the user clears
\* it (on_clear), types key into the item number field (on_item_no_changed starts the
\* lookup), the thread finds the key's Record in index and ends, and the result is
\* applied (_handle_fetch_result)
UnitsAfterClearAndLookup(w, index, candidates, key) ==
    LET idle == [w EXCEPT !.fetch_workers = <<>>, !.fatal = FALSE]
        typed == setText(on_clear(idle, index, candidates, FALSE), index, candidates,
                         ITEM_NO, key)
        result == [typed.fetch_workers[1] EXCEPT
                      !.phase = "finished",
                      !.record = find_record_by_column(
                                     DictGetOr(index, excel_sheet, EmptyDict),
                                     ITEM_NO, key).record]
    IN _handle_fetch_result([typed EXCEPT !.fetch_workers = <<>>], index, candidates,
                            result).cylinder_units

\* C40: after an on_save that returned and patched the caches, clearing the form and
\* looking the saved key up again shows, in every unit the form had at the save,
\* the order and the cylinder code the unit had.
C40_SavedUnitsRestored ==
    [][ ( /\ SaveStep /\ last_save'.outcome = "saved" /\ last_save'.cached
          /\ FullMatchDigits(last_save'.data[ITEM_NO], 8) )
        => \E restored \in {UnitsAfterClearAndLookup(Window', record_index', Candidates,
                                                     last_save'.data[ITEM_NO])} :
              \A i \in 1..Len(cylinder_units) :
                 /\ i <= Len(restored)
                 /\ restored[i].order = cylinder_units[i].order
                 /\ restored[i].cylinder = strip(cylinder_units[i].cylinder) ]_vars

====
